---- MODULE Spec2Model ----
(***************************************************************************)
(* Model of the rw2 iteration supervisor:                                  *)
(*   hooks/stop-hook.sh        the iteration-boundary step (Stop hook)     *)
(*   scripts/run-supervisor.sh the multi-cycle supervisor                  *)
(*   scripts/strategy-engine.ts the strategy engine                        *)
(*                                                                         *)
(* The specifications share the variables:                                 *)
(*   Spec      one loop, boundary invocations one after the other          *)
(*   SpecConc  one loop, two overlapping boundary invocations              *)
(*   SpecRerun overlapping boundary invocations that come again            *)
(*   SpecLoop  one loop with failing helper scripts                        *)
(*   SpecSup   the cycle supervisor, SpecSupFair with every step taken     *)
(*   SpecStrategy  the strategy engine, a pure function, on drawn inputs   *)
(*   SpecAnalyzer, SpecBuilder, SpecHandoff  the helper scripts            *)
(***************************************************************************)
EXTENDS Integers, Sequences, FiniteSets, TLC

----------------------------------------------------------------------------
(* Bounds of the exploration *)

\* largest max_iterations explored; boundaries are explored up to this iteration
MaxIter == 3
\* longest last assistant message, in symbols
MaxMsgLen == 3
\* largest --max-cycles argument explored
MaxCyclesArg == 3
\* largest iteration handed to the strategy engine
MaxEngineIteration == 37
\* largest stuck_count handed to the strategy engine
MaxStuckCount == 6
\* largest count of one repeated error pattern
MaxErrorCount == 4
\* most repeated error patterns in one analysis
MaxErrorPatterns == 3
\* last iteration whose boundary is explored in a loop run with its helper scripts
MaxLoopIter == 6
\* most error occurrences in one transcript
MaxTranscriptErrors == 5
\* most key learnings, and most next actions, in the memory given to the context builder
MaxLearnings == 7
\* most entries in each array of a cycle handoff
MaxItems == 2
\* last iteration whose boundary is explored when invocations come again
MaxRerunIter == 2

----------------------------------------------------------------------------
(* Program constants *)

MAX_RETRIES == 2
CONTEXT_THRESHOLD == 60
CONTEXT_WINDOW == 200000

\* phase and recovery thresholds of the strategy engine
EXPLORE_END == 10
FOCUSED_END == 35
\* variant: a repeated error counts only from one occurrence more
REPEATED_ERROR_THRESHOLD_Four == 3 + 1
REPEATED_ERROR_THRESHOLD == 3
\* variant: recovery only after one stuck iteration more
STUCK_THRESHOLD_Six == 5 + 1
STUCK_THRESHOLD == 5

\* output length from which the analyzer takes the output as substantive
\* variant: a longer output needed
SUBSTANTIVE_LENGTH_Longer == 500 + 100
SUBSTANTIVE_LENGTH == 500

\* entries shown of the key learnings and of the next actions
LEARNINGS_LIMIT == 5
ACTIONS_LIMIT == 5

\* a counter field whose text does not match ^[0-9]+$
Corrupt == -1

\* a field whose line is not in the frontmatter
Absent == -1

\* the helper scripts a boundary step runs
Scripts ==
  {"analyze-transcript", "strategy-engine", "update-memory", "update-status",
   "build-context"}

\* the two overlapping hook processes
Procs == {1, 2}

Strategies == {"explore", "focused", "cleanup", "recovery"}

----------------------------------------------------------------------------
(* Text of the last assistant message.  A text is a sequence of symbols:   *)
(*   "O" the literal <promise>, "C" the literal </promise>,                *)
(*   "S" one whitespace character, "D" one non-blank character.            *)
(* The configured phrase is a text too; <<>> is the empty / null phrase.   *)

Alphabet == {"O", "C", "S", "D"}

RECURSIVE TextsUpTo(_)
TextsUpTo(n) ==
  IF n = 0 THEN {<<>>}
  ELSE LET shorter == TextsUpTo(n - 1)
       IN  shorter \cup {Append(t, c) : t \in {s \in shorter : Len(s) = n - 1}, c \in Alphabet}

\* first index j >= i with s[j] = c, 0 when there is none
RECURSIVE IndexFrom(_, _, _)
IndexFrom(s, c, i) ==
  IF i > Len(s) THEN 0
  ELSE IF s[i] = c THEN i
  ELSE IndexFrom(s, c, i + 1)

\* perl: s/.*?<promise>(.*?)<\/promise>.*/$1/s
\* the text between the first <promise> and the first </promise> after it;
\* when the pattern does not match, the substitution leaves the whole text.
ExtractPromise(s) ==
  LET o == IndexFrom(s, "O", 1)
      c == IF o = 0 THEN 0 ELSE IndexFrom(s, "C", o + 1)
  IN  IF c = 0 THEN s ELSE SubSeq(s, o + 1, c - 1)

\* perl: s/^\s+|\s+$//g
RECURSIVE TrimLeft(_)
TrimLeft(s) ==
  IF s # <<>> /\ Head(s) = "S" THEN TrimLeft(Tail(s)) ELSE s

RECURSIVE TrimRight(_)
TrimRight(s) ==
  IF s # <<>> /\ s[Len(s)] = "S" THEN TrimRight(SubSeq(s, 1, Len(s) - 1)) ELSE s

\* perl: s/\s+/ /g
RECURSIVE Collapse(_)
Collapse(s) ==
  IF Len(s) < 2 THEN s
  ELSE IF s[1] = "S" /\ s[2] = "S" THEN Collapse(Tail(s))
  ELSE <<Head(s)>> \o Collapse(Tail(s))

\* PROMISE_TEXT of stop-hook.sh line 156
PromiseText(s) == Collapse(TrimRight(TrimLeft(ExtractPromise(s))))

\* the condition of stop-hook.sh lines 155 and 158
PromiseDetected(msg, phrase) ==
  /\ phrase # <<>>
  /\ PromiseText(msg) # <<>>
  /\ PromiseText(msg) = phrase

----------------------------------------------------------------------------
(* State *)

VARIABLES
  stateFile,      \* .claude/ralph-loop.local.md
  tempFile,       \* .claude/ralph-loop.local.md.tmp.$$ of each hook process
  lockPath,       \* inode linked at .claude/ralph-loop.local.md.lock, 0 = no file
  fd,             \* inode each hook process holds open as descriptor 200, 0 = none
  holder,         \* per inode, the process holding its flock, 0 = free
  nudgeFile,      \* .claude/RALPH_NUDGE.md exists
  checkpointFile, \* .claude/RALPH_CHECKPOINT.md exists
  summary,        \* .claude/RALPH_SUMMARY.md
  handoffs,       \* cycle handoffs stored in the memory store
  pc,             \* position of each hook process
  inp,            \* hook input of each process: the transcript it is given
  loc,            \* shell variables of each hook process
  out,            \* what each hook process printed as its decision
  ending,         \* the path on which each hook process exited
  exitCode,       \* exit status of each hook process
  iter0,          \* history: iteration stored when the loop was set up
  updated,        \* history: the process has replaced the state file
  overlap,        \* history: another invocation or a cancellation ran during this one
  cancelled,      \* history: the operator has cancelled the loop
  memoryCalls,    \* iterations for which update-memory.ts was run
  statusCalls,    \* iterations for which update-status.ts was run
  quiet,          \* history: boundaries in a row whose analysis had meaningful_changes false
  sessionIds,     \* history: session ids handed to the memory, summary and handoff scripts
  phases,         \* history: the phases each hook process has gone through, in order
  supPc,          \* position of the supervisor
  MAX_CYCLES,     \* --max-cycles
  CYCLE,
  RETRY_COUNT,
  EXIT_CODE,      \* exit status of the last agent loop (run-headless.sh)
  TOTAL_ITERATIONS,
  HANDOFF_CONTEXT,\* cycle number of the handoff loaded into the cycle prompt, 0 = none
  CYCLE_PROMPT,   \* the prompt handed to run-headless.sh, a sequence of parts
  supState,       \* .claude/ralph-supervisor.json
  supExit,        \* exit status of the supervisor, -1 while it runs
  runsOfCycle,    \* history: agent loops started with the current cycle number
  saveCalls,      \* history: cycles whose handoff save the supervisor has issued
  lastCase,       \* history: the case branch taken for the last agent exit
  handoffReads,   \* history: how often the handoff of each cycle has been loaded
  supRecorded,    \* history: the terminal status the main loop wrote, "none" before
  agentRuns,      \* history: agent loops (run-headless.sh) started so far
  seState,        \* strategy engine input: .state (iteration, stuck_count, current)
  seAnalysis,     \* strategy engine input: .analysis (counts of the repeated errors)
  seResult,       \* strategy engine output: .strategy, "none" before the run
  seInput,        \* strategy engine input: what kind of text is on its stdin
  seOutput,       \* strategy engine output: exit status, .reason and .action
  atTranscript,   \* analyzer input: what the transcript holds
  atAnalysis,     \* analyzer output, .ran false before the run
  bcMemory,       \* context builder input: .memory
  bcContext,      \* context builder output, .built false before the run
  chHandoff,      \* the cycle handoff given to save-cycle-handoff.ts
  chSaved,        \* the text stored for it, <<>> before the save
  chLoaded        \* what load-cycle-handoff.ts has read back, .found false before

hookVars == <<stateFile, tempFile, lockPath, fd, holder, nudgeFile, checkpointFile,
              summary, pc, inp, loc, out, ending, exitCode, iter0, updated, overlap,
              cancelled, memoryCalls, statusCalls, quiet, sessionIds, phases>>
supVars == <<supPc, MAX_CYCLES, CYCLE, RETRY_COUNT, EXIT_CODE, TOTAL_ITERATIONS,
             HANDOFF_CONTEXT, CYCLE_PROMPT, supState, supExit, runsOfCycle, saveCalls,
             lastCase, handoffReads, supRecorded, agentRuns>>
seVars == <<seState, seAnalysis, seResult, seInput, seOutput>>
scriptVars == <<atTranscript, atAnalysis, bcMemory, bcContext, chHandoff, chSaved,
                chLoaded>>
nonHookVars == <<supVars, seVars, scriptVars>>
vars == <<hookVars, handoffs, supVars, seVars, scriptVars>>

----------------------------------------------------------------------------
(* Loop state file.  bytes tells how much of the file's text is on disk:    *)
(* "none" (an empty file), "partial" or "all".                              *)

(* prompt holds the lines after the frontmatter, the prompt text.  A line is *)
(* told by how it begins: "iteration: " followed by n (Corrupt: by text that *)
(* is no number), "  current: " followed by s, or anything else.            *)

TextLine == [key |-> "text", n |-> 0, s |-> ""]

IterationLine(n) == [key |-> "iteration", n |-> n, s |-> ""]

CurrentLine(s) == [key |-> "current", n |-> 0, s |-> s]

\* the prompt texts explored: one line of text, and a text with a line that
\* begins like one of the two frontmatter lines the boundary update rewrites
Prompts ==
  {<<TextLine>>, <<TextLine, IterationLine(Corrupt)>>, <<CurrentLine("mine"), TextLine>>}

\* lines 298-299: s#^iteration: .*#iteration: $NEXT_ITERATION# and
\* s#^  current: .*#  current: "$NEW_STRATEGY"#, applied to one line
SedLine(line, nextIteration, newStrategy) ==
  IF line.key = "iteration" THEN [line EXCEPT !.n = nextIteration]
  ELSE IF line.key = "current" THEN [line EXCEPT !.s = newStrategy]
  ELSE line

NoFile ==
  [exists |-> FALSE, iteration |-> 0, max_iterations |-> 0, completion_promise |-> <<>>,
   checkpoint_interval |-> 0, checkpoint_mode |-> "notify", cycle_number |-> 1,
   current |-> "explore", bytes |-> "none", session_id |-> 0, stuck_count |-> 0,
   prompt |-> <<>>]

NoSummary == [written |-> FALSE, reason |-> "none", final_iteration |-> 0, outcome |-> "none"]

NoInput == [transcript |-> "none", text |-> <<>>]

NoLocals ==
  [ITERATION |-> 0, MAX_ITERATIONS |-> 0, COMPLETION_PROMISE |-> <<>>,
   CHECKPOINT_INTERVAL |-> 0, CHECKPOINT_MODE |-> "notify", CYCLE_NUMBER |-> 1,
   ANALYSIS |-> FALSE, STRATEGY |-> FALSE,
   NEW_STRATEGY |-> "explore", NEXT_ITERATION |-> 0, IS_CHECKPOINT |-> FALSE,
   NUDGE_CONTENT |-> FALSE, SESSION_ID |-> 0, STUCK_COUNT |-> 0,
   CURRENT_STRATEGY |-> "explore", FAILED |-> {}, MEANINGFUL_CHANGES |-> FALSE,
   ENHANCED_PROMPT |-> "none", RAW_STRATEGY |-> "none", ESTIMATED_PCT |-> 0]

Inodes == 1 .. Cardinality(Procs)

\* transcript sizes in bytes, around the 60% estimate (480000 bytes = 120000 tokens)
TranscriptSizes == {4000, 480003, 480004}

\* a small transcript and one past the estimate of 60%
CoarseSizes == {4000, 480004}

\* outcome category generate-summary.ts derives from the completion reason
Outcomes(reason) ==
  CASE reason = "promise" -> {"completed"}
    [] reason = "max_iterations" -> {"partial", "incomplete"}
    [] reason = "cancelled" -> {"cancelled"}
    [] reason = "error" -> {"error"}
    [] reason = "context_threshold" -> {"cycling"}
    [] OTHER -> {"unknown"}

\* jq ... | bun run generate-summary.ts .claude/RALPH_SUMMARY.md 2>/dev/null || true
SummaryResults(reason, iteration) ==
  {summary} \cup
  {[written |-> TRUE, reason |-> reason, final_iteration |-> iteration, outcome |-> o] :
     o \in Outcomes(reason)}

\* echo "$HANDOFF_INPUT" | bun run save-cycle-handoff.ts 2>/dev/null || true
HandoffResults(cycle, pct) ==
  {handoffs, handoffs \cup {[cycle_number |-> cycle, context_pct |-> pct]}}

\* variant: the strategy written as the engine gave it
ValidateStrategy_AsGiven(s) == s

\* case "$NEW_STRATEGY" in explore|focused|cleanup|recovery) ;; *) NEW_STRATEGY="explore"
ValidateStrategy(s) == IF s \in Strategies THEN s ELSE "explore"

\* the locks a process holds are dropped when its descriptor 200 is closed
Released(p) == [i \in Inodes |-> IF holder[i] = p THEN 0 ELSE holder[i]]

----------------------------------------------------------------------------
(* hooks/stop-hook.sh, one process per invocation *)

\* every exit runs the cleanup trap: rm -f "$RALPH_STATE_FILE.tmp.$$" "$RALPH_STATE_FILE.lock"
Exit(p, how, code, decision) ==
  /\ pc' = [pc EXCEPT ![p] = "done"]
  /\ ending' = [ending EXCEPT ![p] = how]
  /\ exitCode' = [exitCode EXCEPT ![p] = code]
  /\ out' = [out EXCEPT ![p] = decision]
  /\ tempFile' = [tempFile EXCEPT ![p] = NoFile]
  /\ lockPath' = 0
  /\ fd' = [fd EXCEPT ![p] = 0]
  /\ holder' = Released(p)

\* variant: the active-loop test passing without a state file
LoopActive_Always(file) == TRUE

\* line 44: [[ -f "$RALPH_STATE_FILE" ]]
LoopActive(file) == file.exists

\* variant: the validation accepting any text
IsNumeric_Any(v) == TRUE

\* lines 83 and 89: [[ "$ITERATION" =~ ^[0-9]+$ ]]
IsNumeric(v) == v # Corrupt

\* variant: the cap test with -gt in place of -ge
MaxReached_Late(iteration, maxIterations) ==
  maxIterations > 0 /\ iteration > maxIterations

\* line 107: [[ $MAX_ITERATIONS -gt 0 ]] && [[ $ITERATION -ge $MAX_ITERATIONS ]]
MaxReached(iteration, maxIterations) ==
  maxIterations > 0 /\ iteration >= maxIterations

\* variant: the exit without the rm of the state file
RemoveStateAndExit_NoRm(p, how) ==
  /\ UNCHANGED stateFile
  /\ Exit(p, how, 0, "none")

\* rm "$RALPH_STATE_FILE"; exit 0  -- rm without -f fails under set -e when the file is gone
RemoveStateAndExit(p, how) ==
  /\ stateFile' = NoFile
  /\ Exit(p, how, IF stateFile.exists THEN 0 ELSE 1, "none")

\* lines 95-101: ralph-$(date +%Y%m%d%H%M%S)-$(head -c 4 /dev/urandom | xxd -p),
\* an id that no earlier boundary has had
NewSessionId == 2 + Cardinality(sessionIds)

\* line 178: ... analyze-transcript.ts "$TRANSCRIPT_PATH" 2>/dev/null || echo '{...}'
AnalysisOrDefault(failed, analysis) ==
  IF "analyze-transcript" \in failed
  THEN [repeated_errors |-> <<>>, meaningful_changes |-> FALSE]
  ELSE analysis

\* line 223: ... strategy-engine.ts 2>/dev/null || echo '{"strategy":"explore",...}'
StrategyOrDefault(failed, strategy) ==
  IF "strategy-engine" \in failed THEN "explore" ELSE strategy

\* variant: no text at all when build-context.ts fails
EnhancedPrompt_NoFallback(failed) ==
  IF "build-context" \in failed THEN "nothing" ELSE "context"

\* line 274: ... build-context.ts 2>/dev/null || echo "$PROMPT_TEXT"
EnhancedPrompt(failed) ==
  IF "build-context" \in failed THEN "PROMPT_TEXT" ELSE "context"

\* variant: the context built before the memory update
Pipeline_ContextEarly == <<"analysis", "strategy", "context", "memory", "status">>

\* lines 177-274, the calls in program order: analyze-transcript.ts (178),
\* strategy-engine.ts (223), update-memory.ts (233), update-status.ts (242),
\* build-context.ts (274)
Pipeline == <<"analysis", "strategy", "memory", "status", "context">>

\* lines 36-104: read the hook input, test for an active loop, parse the frontmatter
HookStart(p, texts, lastIteration) ==
  /\ pc[p] = "idle"
  /\ stateFile.exists =>
       (stateFile.iteration = Corrupt \/ stateFile.iteration <= lastIteration)
  /\ \E tr \in {"missing", "noassistant", "ok"}, text \in texts :
       inp' = [inp EXCEPT ![p] = [transcript |-> tr,
                                  text |-> IF tr = "ok" THEN text ELSE <<>>]]
  /\ IF ~LoopActive(stateFile)
     THEN /\ Exit(p, "no_loop", 0, "none")
          /\ UNCHANGED loc
     ELSE IF stateFile.session_id = Absent
     THEN \* line 70: grep finds no session_id line, the pipeline fails under
          \* pipefail and the assignment ends the hook under set -e
          /\ Exit(p, "parse_failed", 1, "none")
          /\ UNCHANGED loc
     ELSE /\ loc' = [loc EXCEPT ![p] =
                 [NoLocals EXCEPT
                    !.ITERATION = stateFile.iteration,
                    !.MAX_ITERATIONS = stateFile.max_iterations,
                    !.COMPLETION_PROMISE = stateFile.completion_promise,
                    !.SESSION_ID = stateFile.session_id,
                    !.CHECKPOINT_INTERVAL = stateFile.checkpoint_interval,
                    !.CHECKPOINT_MODE = stateFile.checkpoint_mode,
                    !.CYCLE_NUMBER = stateFile.cycle_number,
                    !.CURRENT_STRATEGY = stateFile.current,
                    !.STUCK_COUNT = stateFile.stuck_count]]
          /\ pc' = [pc EXCEPT ![p] = "decide"]
          /\ UNCHANGED <<ending, exitCode, out, tempFile, lockPath, fd, holder>>
  /\ UNCHANGED <<stateFile, nudgeFile, checkpointFile, summary, handoffs, iter0,
                 cancelled, memoryCalls, statusCalls, quiet, sessionIds, phases, updated>>

\* lines 82-284: validation, session id, iteration cap, transcript, completion
\* promise, analysis and strategy, memory and status, nudge, checkpoint test,
\* context.  runs are the outcomes the helper scripts can have.
HookDecide(p, runs) ==
  /\ pc[p] = "decide"
  /\ LET L == loc[p]
         I == inp[p]
         SESSION_ID == IF L.SESSION_ID = 0 THEN NewSessionId ELSE L.SESSION_ID
     IN
     IF ~IsNumeric(L.ITERATION) \/ ~IsNumeric(L.MAX_ITERATIONS)
     THEN /\ RemoveStateAndExit(p, "corrupt")
          /\ UNCHANGED <<summary, loc, nudgeFile, memoryCalls, statusCalls, quiet,
                         sessionIds, phases>>
     ELSE IF MaxReached(L.ITERATION, L.MAX_ITERATIONS)
     THEN /\ summary' \in SummaryResults("max_iterations", L.ITERATION)
          /\ sessionIds' = sessionIds \cup {SESSION_ID}
          /\ RemoveStateAndExit(p, "max_iterations")
          /\ UNCHANGED <<loc, nudgeFile, memoryCalls, statusCalls, quiet, phases>>
     ELSE IF I.transcript = "missing"
     THEN /\ RemoveStateAndExit(p, "no_transcript")
          /\ UNCHANGED <<summary, loc, nudgeFile, memoryCalls, statusCalls, quiet,
                         sessionIds, phases>>
     ELSE IF I.transcript = "noassistant"
     THEN /\ RemoveStateAndExit(p, "no_assistant")
          /\ UNCHANGED <<summary, loc, nudgeFile, memoryCalls, statusCalls, quiet,
                         sessionIds, phases>>
     ELSE IF I.text = <<>>
     THEN /\ RemoveStateAndExit(p, "empty")
          /\ UNCHANGED <<summary, loc, nudgeFile, memoryCalls, statusCalls, quiet,
                         sessionIds, phases>>
     ELSE IF PromiseDetected(I.text, L.COMPLETION_PROMISE)
     THEN /\ summary' \in SummaryResults("promise", L.ITERATION)
          /\ sessionIds' = sessionIds \cup {SESSION_ID}
          /\ RemoveStateAndExit(p, "promise")
          /\ UNCHANGED <<loc, nudgeFile, memoryCalls, statusCalls, quiet, phases>>
     ELSE IF ~stateFile.exists
     THEN \* line 181: awk cannot read the state file, the assignment fails under set -e
          /\ Exit(p, "io_error", 2, "none")
          /\ UNCHANGED <<stateFile, summary, loc, nudgeFile, memoryCalls, statusCalls,
                         quiet, sessionIds, phases>>
     ELSE /\ \E run \in runs :
               /\ loc' = [loc EXCEPT ![p] =
                    [L EXCEPT !.SESSION_ID = SESSION_ID,
                              !.ANALYSIS = TRUE,
                              !.MEANINGFUL_CHANGES = run.analysis.meaningful_changes,
                              !.STRATEGY = TRUE,
                              !.FAILED = run.failed,
                              !.RAW_STRATEGY = run.raw,
                              !.NEW_STRATEGY = ValidateStrategy(run.raw),
                              !.NUDGE_CONTENT = nudgeFile,
                              !.NEXT_ITERATION = L.ITERATION + 1,
                              !.IS_CHECKPOINT =
                                 (L.CHECKPOINT_INTERVAL > 0
                                  /\ (L.ITERATION + 1) % L.CHECKPOINT_INTERVAL = 0),
                              !.ENHANCED_PROMPT = EnhancedPrompt(run.failed)]]
               /\ quiet' = IF run.analysis.meaningful_changes THEN 0 ELSE quiet + 1
          /\ memoryCalls' = memoryCalls \cup {L.ITERATION}
          /\ statusCalls' = statusCalls \cup {L.ITERATION}
          /\ sessionIds' = sessionIds \cup {SESSION_ID}
          /\ nudgeFile' = FALSE
          /\ phases' = [phases EXCEPT ![p] = phases[p] \o Pipeline]
          /\ pc' = [pc EXCEPT ![p] = "open"]
          /\ UNCHANGED <<stateFile, summary, ending, exitCode, out, tempFile,
                         lockPath, fd, holder>>
  /\ UNCHANGED <<checkpointFile, handoffs, inp, iter0, cancelled, updated>>

\* line 309: ( ... ) 200>"$LOCK_FILE" opens the lock file, creating it when absent
HookOpenLock(p) ==
  /\ pc[p] = "open"
  /\ LET inode == IF lockPath # 0 THEN lockPath
                  ELSE CHOOSE i \in Inodes : \A q \in Procs : fd[q] # i
     IN  /\ lockPath' = inode
         /\ fd' = [fd EXCEPT ![p] = inode]
  /\ pc' = [pc EXCEPT ![p] = "flock"]
  /\ UNCHANGED <<stateFile, tempFile, holder, nudgeFile, checkpointFile, summary,
                 handoffs, inp, loc, out, ending, exitCode, iter0,
                 cancelled, memoryCalls, statusCalls, quiet, sessionIds, phases, updated>>

\* line 292: flock -x -w 5 200 succeeds
HookAcquire(p) ==
  /\ pc[p] = "flock"
  /\ holder[fd[p]] = 0
  /\ holder' = [holder EXCEPT ![fd[p]] = p]
  /\ pc' = [pc EXCEPT ![p] = "sed"]
  /\ UNCHANGED <<stateFile, tempFile, lockPath, fd, nudgeFile, checkpointFile, summary,
                 handoffs, inp, loc, out, ending, exitCode, iter0,
                 cancelled, memoryCalls, statusCalls, quiet, sessionIds, phases, updated>>

\* variant: a lock timeout handled like the other error paths, state removed
HookLockTimeout_RemovesState(p) ==
  /\ pc[p] = "flock"
  /\ holder[fd[p]] \notin {0, p}
  /\ RemoveStateAndExit(p, "lock_failed")
  /\ UNCHANGED <<nudgeFile, checkpointFile, summary, handoffs, inp, loc, iter0,
                 cancelled, memoryCalls, statusCalls, quiet, sessionIds, phases, updated>>

\* lines 292-295: the lock stays held by another process for 5 seconds;
\* the subshell exits 1 and set -e ends the hook
HookLockTimeout(p) ==
  /\ pc[p] = "flock"
  /\ holder[fd[p]] \notin {0, p}
  /\ Exit(p, "lock_failed", 1, "none")
  /\ UNCHANGED <<stateFile, nudgeFile, checkpointFile, summary, handoffs, inp, loc,
                 iter0, cancelled, memoryCalls, statusCalls, quiet, sessionIds, phases, updated>>

\* variant: the mv run as soon as sed has written something
SedDone_Early(file) == file.bytes # "none"

\* lines 298-304: the mv runs after sed has returned
SedDone(file) == file.bytes = "all"

\* line 300: > "$TEMP_FILE" creates the temp file, empty, before sed runs
HookRedirect(p) ==
  /\ pc[p] = "sed"
  /\ ~tempFile[p].exists
  /\ tempFile' = [tempFile EXCEPT ![p] = [NoFile EXCEPT !.exists = TRUE]]
  /\ UNCHANGED <<stateFile, lockPath, fd, holder, nudgeFile, checkpointFile, summary,
                 handoffs, pc, inp, loc, out, ending, exitCode, iter0,
                 cancelled, memoryCalls, statusCalls, quiet, sessionIds, phases, updated>>

\* lines 298-300: sed opens the state file and writes it, with iteration and
\* strategy.current rewritten, into the temp file, a part at a time
HookSed(p) ==
  /\ pc[p] = "sed"
  /\ tempFile[p].exists
  /\ IF tempFile[p].bytes = "none" /\ ~stateFile.exists
     THEN \* sed cannot read the file: the subshell and then the hook exit with its status
          Exit(p, "sed_failed", 2, "none")
     ELSE LET written ==
                IF tempFile[p].bytes = "none"
                THEN [stateFile EXCEPT !.iteration = loc[p].NEXT_ITERATION,
                                       !.current = loc[p].NEW_STRATEGY,
                                       !.prompt =
                                          [i \in DOMAIN stateFile.prompt |->
                                             SedLine(stateFile.prompt[i],
                                                     loc[p].NEXT_ITERATION,
                                                     loc[p].NEW_STRATEGY)],
                                       !.bytes = "partial"]
                ELSE [tempFile[p] EXCEPT !.bytes = "all"]
          IN  /\ tempFile' = [tempFile EXCEPT ![p] = written]
              /\ pc' = [pc EXCEPT ![p] = IF SedDone(written) THEN "mv" ELSE "sed"]
              /\ UNCHANGED <<ending, exitCode, out, lockPath, fd, holder>>
  /\ UNCHANGED <<stateFile, nudgeFile, checkpointFile, summary, handoffs, inp, loc, iter0,
                 cancelled, memoryCalls, statusCalls, quiet, sessionIds, phases, updated>>

\* lines 303-309: a temp file that is not empty is moved over the state file,
\* an empty one is removed; the subshell ends and closes descriptor 200, which
\* releases the lock
HookMv(p) ==
  /\ pc[p] = "mv"
  /\ stateFile' = IF tempFile[p].bytes # "none" THEN tempFile[p] ELSE stateFile
  /\ tempFile' = [tempFile EXCEPT ![p] = NoFile]
  /\ holder' = Released(p)
  /\ fd' = [fd EXCEPT ![p] = 0]
  /\ updated' = [updated EXCEPT ![p] = tempFile[p].bytes # "none"]
  /\ phases' = [phases EXCEPT ![p] =
                  IF tempFile[p].bytes # "none" THEN Append(phases[p], "save")
                  ELSE phases[p]]
  /\ pc' = [pc EXCEPT ![p] = "rmlock"]
  /\ UNCHANGED <<lockPath, nudgeFile, checkpointFile, summary, handoffs, inp, loc, out,
                 ending, exitCode, iter0, cancelled, memoryCalls, statusCalls, quiet,
                 sessionIds>>

\* line 312: rm -f "$LOCK_FILE"
HookRmLock(p) ==
  /\ pc[p] = "rmlock"
  /\ lockPath' = 0
  /\ pc' = [pc EXCEPT ![p] = "finish"]
  /\ UNCHANGED <<stateFile, tempFile, fd, holder, nudgeFile, checkpointFile, summary,
                 handoffs, inp, loc, out, ending, exitCode, iter0,
                 cancelled, memoryCalls, statusCalls, quiet, sessionIds, phases, updated>>

\* line 383: [[ $ESTIMATED_TOKENS -gt $THRESHOLD_TOKENS ]]
ThresholdExceeded(estimatedTokens, thresholdTokens) == estimatedTokens > thresholdTokens

\* lines 314-439: checkpoint pause, context estimate, block decision
HookFinish(p, sizes) ==
  /\ pc[p] = "finish"
  /\ LET L == loc[p] IN
     IF L.IS_CHECKPOINT /\ L.CHECKPOINT_MODE = "pause"
     THEN /\ checkpointFile' = TRUE
          /\ Exit(p, "paused", 0, "pause")
          /\ phases' = [phases EXCEPT ![p] = Append(phases[p], "decision")]
          /\ UNCHANGED <<stateFile, summary, handoffs, sessionIds, loc>>
     ELSE \E TRANSCRIPT_SIZE \in sizes :
            LET ESTIMATED_TOKENS == TRANSCRIPT_SIZE \div 4
                THRESHOLD_TOKENS == (CONTEXT_WINDOW * CONTEXT_THRESHOLD) \div 100
                ESTIMATED_PCT == (ESTIMATED_TOKENS * 100) \div CONTEXT_WINDOW
            IN  /\ loc' = [loc EXCEPT ![p].ESTIMATED_PCT = ESTIMATED_PCT]
                /\ IF ThresholdExceeded(ESTIMATED_TOKENS, THRESHOLD_TOKENS)
                   THEN /\ handoffs' \in HandoffResults(L.CYCLE_NUMBER, ESTIMATED_PCT)
                        /\ summary' \in SummaryResults("context_threshold", L.ITERATION)
                        /\ sessionIds' = sessionIds \cup {L.SESSION_ID}
                        /\ stateFile' = NoFile
                        /\ Exit(p, "context_threshold", 0, "none")
                        /\ UNCHANGED <<checkpointFile, phases>>
                   ELSE /\ Exit(p, "continue", 0, "block")
                        /\ phases' = [phases EXCEPT ![p] = Append(phases[p], "decision")]
                        /\ UNCHANGED <<stateFile, summary, handoffs, checkpointFile,
                                       sessionIds>>
  /\ UNCHANGED <<nudgeFile, inp, iter0,
                 cancelled, memoryCalls, statusCalls, quiet, updated>>

----------------------------------------------------------------------------
(* The agent and the operator *)

\* the agent works another turn and stops again: the Stop hook is run anew
AgentTurn(p) ==
  /\ pc[p] = "done"
  /\ pc' = [pc EXCEPT ![p] = "idle"]
  /\ inp' = [inp EXCEPT ![p] = NoInput]
  /\ loc' = [loc EXCEPT ![p] = NoLocals]
  /\ out' = [out EXCEPT ![p] = "none"]
  /\ ending' = [ending EXCEPT ![p] = "running"]
  /\ exitCode' = [exitCode EXCEPT ![p] = 0]
  /\ updated' = [updated EXCEPT ![p] = FALSE]
  /\ phases' = [phases EXCEPT ![p] = <<>>]
  /\ UNCHANGED <<stateFile, tempFile, lockPath, fd, holder, nudgeFile, checkpointFile,
                 summary, handoffs, iter0, cancelled, memoryCalls, statusCalls, quiet,
                 sessionIds>>

\* the operator cancels the loop: the loop state record is removed
Cancel ==
  /\ stateFile.exists
  /\ stateFile' = NoFile
  /\ cancelled' = TRUE
  /\ UNCHANGED <<tempFile, lockPath, fd, holder, nudgeFile, checkpointFile, summary,
                 handoffs, pc, inp, loc, out, ending, exitCode, iter0, memoryCalls,
                 statusCalls, quiet, sessionIds, phases, updated>>

\* the operator leaves a one-time instruction in .claude/RALPH_NUDGE.md
Nudge ==
  /\ stateFile.exists
  /\ ~nudgeFile
  /\ nudgeFile' = TRUE
  /\ UNCHANGED <<stateFile, tempFile, lockPath, fd, holder, checkpointFile, summary,
                 handoffs, pc, inp, loc, out, ending, exitCode, iter0,
                 cancelled, memoryCalls, statusCalls, quiet, sessionIds, phases, updated>>

\* the operator's continue signal after a checkpoint pause: the pause artifact
\* .claude/RALPH_CHECKPOINT.md is removed
CheckpointContinue ==
  /\ checkpointFile
  /\ checkpointFile' = FALSE
  /\ UNCHANGED <<stateFile, tempFile, lockPath, fd, holder, nudgeFile, summary,
                 handoffs, pc, inp, loc, out, ending, exitCode, iter0,
                 cancelled, memoryCalls, statusCalls, quiet, sessionIds, phases, updated>>

----------------------------------------------------------------------------
(* scripts/run-supervisor.sh *)

\* exit statuses of run-headless.sh: completed, context threshold, two errors
ErrorCodes == {1, 2}

\* iterations read back from a leftover loop state file after a cycle (line 250)
CycleIterations == {0, 1}

\* variant: the loop test admitting one cycle more
CycleAllowed_OneMore(cycle, maxCycles) == cycle <= maxCycles + 1

\* line 190: while [[ $CYCLE -le $MAX_CYCLES ]]
CycleAllowed(cycle, maxCycles) == cycle <= maxCycles

\* variant: the retry test admitting one retry more
RetryAllowed_OneMore(retryCount) == retryCount <= MAX_RETRIES + 1

\* line 315: [[ $RETRY_COUNT -le $MAX_RETRIES ]]
RetryAllowed(retryCount) == retryCount <= MAX_RETRIES

\* variant: the cycle left as it is after a threshold exit
NextCycle_Same(cycle) == cycle

\* line 304: CYCLE=$((CYCLE + 1))
NextCycle(cycle) == cycle + 1

\* line 348: RETRY_COUNT=0 after a cycle progression
RetryCountAfterProgress(retryCount) == 0

\* lines 202-214: load-cycle-handoff.ts returns the most recent handoff of the
\* session, or {"found": false}; a failed call counts as not found
LoadHandoff(cycle) ==
  IF cycle > 1 /\ handoffs # {}
  THEN {0} \cup {CHOOSE n \in {h.cycle_number : h \in handoffs} :
                    \A h \in handoffs : h.cycle_number <= n}
  ELSE {0}

\* the operator's objective, $PROMPT, as one part of a prompt
PROMPT == [kind |-> "objective", cycle |-> 0]

\* .formatted_context of the handoff saved for a cycle, the continuation text
FormattedContext(cycle) == [kind |-> "handoff", cycle |-> cycle]

\* variant: the continuation text alone, without the objective
CyclePrompt_HandoffOnly(handoffContext) ==
  IF handoffContext # 0 THEN <<FormattedContext(handoffContext)>> ELSE <<PROMPT>>

\* lines 216-223: CYCLE_PROMPT is HANDOFF_CONTEXT, a blank line and PROMPT, or
\* PROMPT alone when HANDOFF_CONTEXT is empty
CyclePrompt(handoffContext) ==
  IF handoffContext # 0 THEN <<FormattedContext(handoffContext), PROMPT>> ELSE <<PROMPT>>

\* lines 190-245: the loop test passes, the cycle is recorded, the handoff is
\* loaded, the cycle prompt is built and run-headless.sh is started
SupStartCycle ==
  /\ supPc = "while"
  /\ CycleAllowed(CYCLE, MAX_CYCLES)
  /\ supState' = [supState EXCEPT !.current_cycle = CYCLE,
                                  !.total_iterations = TOTAL_ITERATIONS]
  /\ HANDOFF_CONTEXT' \in LoadHandoff(CYCLE)
  /\ CYCLE_PROMPT' = CyclePrompt(HANDOFF_CONTEXT')
  /\ handoffReads' = IF HANDOFF_CONTEXT' # 0
                     THEN [handoffReads EXCEPT ![HANDOFF_CONTEXT'] = @ + 1]
                     ELSE handoffReads
  /\ runsOfCycle' = runsOfCycle + 1
  /\ agentRuns' = agentRuns + 1
  /\ supPc' = "agent"
  /\ UNCHANGED <<MAX_CYCLES, CYCLE, RETRY_COUNT, EXIT_CODE, TOTAL_ITERATIONS, supExit,
                 saveCalls, lastCase, supRecorded, handoffs, hookVars>>

\* lines 246-276: the agent loop exits 0
SupCase0 ==
  /\ supPc = "agent"
  /\ EXIT_CODE' = 0
  /\ \E n \in CycleIterations :
       /\ TOTAL_ITERATIONS' = TOTAL_ITERATIONS + n
       /\ supState' = [supState EXCEPT !.status = "completed",
                                       !.current_cycle = CYCLE,
                                       !.total_iterations = TOTAL_ITERATIONS + n]
  /\ supExit' = 0
  /\ supPc' = "exited"
  /\ lastCase' = "0"
  /\ supRecorded' = "completed"
  /\ UNCHANGED <<MAX_CYCLES, CYCLE_PROMPT, CYCLE, RETRY_COUNT, HANDOFF_CONTEXT,
                 runsOfCycle, saveCalls, handoffReads, agentRuns, handoffs, hookVars>>

\* lines 246-251, 278-308, 347-348: the agent loop exits 100
SupCase100 ==
  /\ supPc = "agent"
  /\ EXIT_CODE' = 100
  /\ \E n \in CycleIterations : TOTAL_ITERATIONS' = TOTAL_ITERATIONS + n
  /\ handoffs' \in HandoffResults(CYCLE, CONTEXT_THRESHOLD)
  /\ saveCalls' = saveCalls \cup {CYCLE}
  /\ CYCLE' = NextCycle(CYCLE)
  /\ RETRY_COUNT' = RetryCountAfterProgress(RETRY_COUNT)
  /\ runsOfCycle' = IF CYCLE' = CYCLE THEN runsOfCycle ELSE 0
  /\ supPc' = "while"
  /\ lastCase' = "100"
  /\ UNCHANGED <<MAX_CYCLES, CYCLE_PROMPT, HANDOFF_CONTEXT, supState, supExit,
                 handoffReads, supRecorded, agentRuns, hookVars>>

\* lines 246-251, 310-325: another exit status, retries left: continue with the same cycle
SupRetry ==
  /\ supPc = "agent"
  /\ RetryAllowed(RETRY_COUNT + 1)
  /\ \E code \in ErrorCodes : EXIT_CODE' = code
  /\ \E n \in CycleIterations : TOTAL_ITERATIONS' = TOTAL_ITERATIONS + n
  /\ RETRY_COUNT' = RETRY_COUNT + 1
  /\ supPc' = "while"
  /\ lastCase' = "retry"
  /\ UNCHANGED <<MAX_CYCLES, CYCLE_PROMPT, CYCLE, HANDOFF_CONTEXT, supState, supExit,
                 runsOfCycle, saveCalls, handoffReads, supRecorded, agentRuns, handoffs,
                 hookVars>>

\* lines 246-251, 310-315, 327-343 and the cleanup trap (lines 13-23): another exit
\* status, retries used up: status "error" is written, exit $EXIT_CODE runs the
\* trap, which rewrites the status as "interrupted"
SupFail ==
  /\ supPc = "agent"
  /\ ~RetryAllowed(RETRY_COUNT + 1)
  /\ \E code \in ErrorCodes, n \in CycleIterations :
       /\ EXIT_CODE' = code
       /\ TOTAL_ITERATIONS' = TOTAL_ITERATIONS + n
       /\ supState' = [supState EXCEPT !.status = "interrupted",
                                       !.current_cycle = CYCLE,
                                       !.total_iterations = TOTAL_ITERATIONS + n,
                                       !.exit_code = code]
       /\ supExit' = code
  /\ RETRY_COUNT' = RETRY_COUNT + 1
  /\ supPc' = "exited"
  /\ lastCase' = "error"
  /\ supRecorded' = "error"
  /\ UNCHANGED <<MAX_CYCLES, CYCLE_PROMPT, CYCLE, HANDOFF_CONTEXT, runsOfCycle,
                 saveCalls, handoffReads, agentRuns, handoffs, hookVars>>

\* lines 190, 351-370: the loop test fails: max cycles reached, exit 0
SupMaxCycles ==
  /\ supPc = "while"
  /\ ~CycleAllowed(CYCLE, MAX_CYCLES)
  /\ supState' = [supState EXCEPT !.status = "max_cycles",
                                  !.current_cycle = MAX_CYCLES,
                                  !.total_iterations = TOTAL_ITERATIONS]
  /\ supExit' = 0
  /\ supRecorded' = "max_cycles"
  /\ supPc' = "exited"
  /\ UNCHANGED <<MAX_CYCLES, CYCLE_PROMPT, CYCLE, RETRY_COUNT, EXIT_CODE, TOTAL_ITERATIONS,
                 HANDOFF_CONTEXT, runsOfCycle, saveCalls, lastCase, handoffReads,
                 agentRuns, handoffs, hookVars>>

----------------------------------------------------------------------------
(* scripts/strategy-engine.ts *)

\* variant: the phase boundaries with < in place of <=
determineBaseStrategy_Strict(iteration) ==
  IF iteration < EXPLORE_END THEN "explore"
  ELSE IF iteration < FOCUSED_END THEN "focused"
  ELSE "cleanup"

\* the phase table
determineBaseStrategy(iteration) ==
  IF iteration <= EXPLORE_END THEN "explore"
  ELSE IF iteration <= FOCUSED_END THEN "focused"
  ELSE "cleanup"

\* the recovery condition, evaluated first: a repeated error pattern counted
\* REPEATED_ERROR_THRESHOLD times or more, or STUCK_THRESHOLD stuck iterations
\* or more
RecoveryNeeded(state, analysis) ==
  \/ \E i \in DOMAIN analysis.repeated_errors :
       analysis.repeated_errors[i] >= REPEATED_ERROR_THRESHOLD
  \/ state.stuck_count >= STUCK_THRESHOLD

\* (state, analysis) -> .strategy
determineStrategy(state, analysis) ==
  IF RecoveryNeeded(state, analysis) THEN "recovery"
  ELSE determineBaseStrategy(state.iteration)

\* the first entry of repeated_errors, from position i on, counted
\* REPEATED_ERROR_THRESHOLD times or more; 0 when there is none
RECURSIVE FirstAtThreshold(_, _)
FirstAtThreshold(errors, i) ==
  IF i > Len(errors) THEN 0
  ELSE IF errors[i] >= REPEATED_ERROR_THRESHOLD THEN i
  ELSE FirstAtThreshold(errors, i + 1)

\* .reason of a recovery: the kind of the reason and the positions, in
\* repeated_errors, of the patterns its text contains
recoveryReason(state, analysis) ==
  LET first == FirstAtThreshold(analysis.repeated_errors, 1)
  IN  IF first # 0 THEN [kind |-> "repeated", patterns |-> {first}]
      ELSE [kind |-> "stuck", patterns |-> {}]

\* variant: every phase strategy is announced as a switch
strategyAction_AlwaysSwitch(strategy, current) == "switch"

\* .action
strategyAction(strategy, current) ==
  IF strategy = "recovery" \/ strategy # current THEN "switch" ELSE "continue"

\* (state, analysis) -> StrategyResult
determineResult(state, analysis) ==
  LET strategy == determineStrategy(state, analysis)
      reason == IF strategy = "recovery" THEN recoveryReason(state, analysis)
                ELSE [kind |-> "phase", patterns |-> {}]
  IN  [strategy |-> strategy, reason |-> reason.kind, patterns |-> reason.patterns,
       action |-> strategyAction(strategy, state.current), exit |-> 0]

\* what the engine can find on its stdin: a JSON object with .state and
\* .analysis, nothing, text that is not JSON, a JSON object without them
InputKinds == {"ok", "empty", "invalid", "missing"}

\* variant: an object without .state and .analysis is taken as it comes
WellFormed_FieldsOptional(kind) == kind \in {"ok", "missing"}

\* the input can be used for a decision
WellFormed(kind) == kind = "ok"

\* {"strategy":"explore","reason":"Default","action":"continue",...}
DefaultResult ==
  [strategy |-> "explore", reason |-> "default", patterns |-> {},
   action |-> "continue", exit |-> 0]

\* one run of strategy-engine.ts: stdin -> stdout and exit status
runEngine(kind, state, analysis) ==
  IF WellFormed(kind) THEN determineResult(state, analysis) ELSE DefaultResult

NoOutput == [exit |-> -1, reason |-> "none", patterns |-> {}, action |-> "none"]

\* sequences of at most n counts
RECURSIVE CountsUpTo(_)
CountsUpTo(n) ==
  IF n = 0 THEN {<<>>}
  ELSE LET shorter == CountsUpTo(n - 1)
       IN  shorter \cup {Append(t, c) : t \in {q \in shorter : Len(q) = n - 1},
                                        c \in 1 .. MaxErrorCount}

\* the inputs drawn for the engine
EngineStates ==
  [iteration : 0 .. MaxEngineIteration, stuck_count : 0 .. MaxStuckCount,
   current : Strategies]

EngineAnalyses == [repeated_errors : CountsUpTo(MaxErrorPatterns)]

\* one run of the engine on the input at hand
StrategyRun ==
  /\ seResult = "none"
  /\ LET r == runEngine(seInput, seState, seAnalysis)
     IN  /\ seResult' = r.strategy
         /\ seOutput' = [exit |-> r.exit, reason |-> r.reason, patterns |-> r.patterns,
                         action |-> r.action]
  /\ UNCHANGED <<seState, seAnalysis, seInput, hookVars, handoffs, supVars>>

\* the next boundary hands the engine the next iteration, with the strategy
\* just chosen as the current one
StrategyNextInput ==
  /\ seResult # "none"
  /\ seInput = "ok"
  /\ seState.iteration < MaxEngineIteration
  /\ seState' = [seState EXCEPT !.iteration = seState.iteration + 1,
                                !.current = seResult]
  /\ seResult' = "none"
  /\ seOutput' = NoOutput
  /\ UNCHANGED <<seAnalysis, seInput, hookVars, handoffs, supVars>>

----------------------------------------------------------------------------
(* scripts/analyze-transcript.ts *)

\* the labels of the error patterns
ErrorLabels == {"TypeScript compilation error", "JavaScript syntax error", "Test failure"}

\* lengths of the assistant output, in characters
OutputLengths == {19, 500, 501, 529}

\* the error occurrences of a transcript, in the order they come: sequences of
\* at most n labels
RECURSIVE ErrorsUpTo(_)
ErrorsUpTo(n) ==
  IF n = 0 THEN {<<>>}
  ELSE LET shorter == ErrorsUpTo(n - 1)
       IN  shorter \cup {Append(t, l) : t \in {q \in shorter : Len(q) = n - 1},
                                        l \in ErrorLabels}

\* what the assistant messages of a transcript hold
Transcripts ==
  [errors : ErrorsUpTo(MaxTranscriptErrors), file : BOOLEAN, test : BOOLEAN,
   phase : BOOLEAN, chars : OutputLengths, fence : BOOLEAN]

\* how often the label occurs
Occurrences(errors, label) == Cardinality({i \in DOMAIN errors : errors[i] = label})

\* where the label occurs first
FirstOccurrence(errors, label) ==
  CHOOSE i \in DOMAIN errors :
    errors[i] = label /\ \A j \in 1 .. (i - 1) : errors[j] # label

\* the labels found, each once, in the order they were found
RECURSIVE Discovered(_)
Discovered(errors) ==
  IF errors = <<>> THEN <<>>
  ELSE LET before == Discovered(SubSeq(errors, 1, Len(errors) - 1))
           last == errors[Len(errors)]
       IN  IF \E i \in DOMAIN before : before[i] = last THEN before
           ELSE Append(before, last)

\* variant: an error counts as repeated from the third occurrence
IsRepeated_FromThree(entry) == entry.count >= 3

\* an error counts as repeated from the second occurrence
IsRepeated(entry) == entry.count >= 2

\* the entry put after the entries of the same or a higher count
RECURSIVE InsertByCount(_, _)
InsertByCount(sorted, entry) ==
  IF sorted = <<>> THEN <<entry>>
  ELSE IF Head(sorted).count >= entry.count
       THEN <<Head(sorted)>> \o InsertByCount(Tail(sorted), entry)
       ELSE <<entry>> \o sorted

\* sort by count descending, entries of equal count staying in their order
RECURSIVE SortByCount(_)
SortByCount(entries) ==
  IF entries = <<>> THEN <<>>
  ELSE InsertByCount(SortByCount(SubSeq(entries, 1, Len(entries) - 1)),
                     entries[Len(entries)])

\* .repeated_errors
repeatedErrors(errors) ==
  LET found == Discovered(errors)
      counted == [i \in DOMAIN found |->
                    [pattern |-> found[i], count |-> Occurrences(errors, found[i])]]
  IN  SortByCount(SelectSeq(counted, IsRepeated))

\* .meaningful_changes
meaningfulChanges(files_modified, tests_run, phase_completions, chars, fence) ==
  \/ files_modified # <<>>
  \/ tests_run
  \/ phase_completions # <<>>
  \/ chars > SUBSTANTIVE_LENGTH
  \/ fence

\* transcript -> TranscriptAnalysis
analyzeTranscript(t) ==
  LET files_modified == IF t.file THEN <<"/src/new.ts">> ELSE <<>>
      phase_completions == IF t.phase THEN <<"phase-1">> ELSE <<>>
  IN  [ran |-> TRUE,
       repeated_errors |-> repeatedErrors(t.errors),
       files_modified |-> files_modified,
       tests_run |-> t.test,
       phase_completions |-> phase_completions,
       meaningful_changes |->
         meaningfulChanges(files_modified, t.test, phase_completions, t.chars, t.fence)]

NoAnalysis ==
  [ran |-> FALSE, repeated_errors |-> <<>>, files_modified |-> <<>>, tests_run |-> FALSE,
   phase_completions |-> <<>>, meaningful_changes |-> FALSE]

\* one run of the analyzer on the transcript at hand
AnalyzerRun ==
  /\ ~atAnalysis.ran
  /\ atAnalysis' = analyzeTranscript(atTranscript)
  /\ UNCHANGED <<atTranscript, bcMemory, bcContext, chHandoff, chSaved, chLoaded,
                 hookVars, handoffs, supVars, seVars>>

\* the agent's next turn adds one error occurrence to the transcript
AnalyzerNextTranscript ==
  /\ atAnalysis.ran
  /\ Len(atTranscript.errors) < MaxTranscriptErrors
  /\ \E l \in ErrorLabels :
       atTranscript' = [atTranscript EXCEPT !.errors = Append(atTranscript.errors, l)]
  /\ atAnalysis' = NoAnalysis
  /\ UNCHANGED <<bcMemory, bcContext, chHandoff, chSaved, chLoaded,
                 hookVars, handoffs, supVars, seVars>>

----------------------------------------------------------------------------
(* scripts/build-context.ts *)

\* the first n entries of a memory list, the i-th entry written i: key
\* learnings in the order they were learned, next actions in their order
EntriesUpTo(n) == [i \in 1 .. n |-> i]

\* .memory
Memories ==
  [key_learnings : {EntriesUpTo(n) : n \in 0 .. MaxLearnings},
   next_actions : {EntriesUpTo(n) : n \in 0 .. MaxLearnings},
   current_status : BOOLEAN]

\* variant: the oldest learnings shown
recentLearnings_Oldest(learnings) ==
  SubSeq(learnings, 1, IF Len(learnings) > LEARNINGS_LIMIT THEN LEARNINGS_LIMIT
                       ELSE Len(learnings))

\* the learnings shown: the last LEARNINGS_LIMIT of the list
recentLearnings(learnings) ==
  SubSeq(learnings,
         IF Len(learnings) > LEARNINGS_LIMIT THEN Len(learnings) - LEARNINGS_LIMIT + 1
         ELSE 1,
         Len(learnings))

\* the next actions shown: the first ACTIONS_LIMIT of the list
firstActions(actions) ==
  SubSeq(actions, 1, IF Len(actions) > ACTIONS_LIMIT THEN ACTIONS_LIMIT ELSE Len(actions))

\* the sections of the context and the entries in two of them
buildContext(memory) ==
  [built |-> TRUE,
   sections |->
     {"header", "YOUR MISSION", "STRATEGY GUIDANCE"}
       \cup (IF memory.current_status THEN {"CURRENT STATUS"} ELSE {})
       \cup (IF memory.next_actions # <<>> THEN {"NEXT ACTIONS"} ELSE {})
       \cup (IF memory.key_learnings # <<>> THEN {"KEY LEARNINGS"} ELSE {}),
   next_actions |-> firstActions(memory.next_actions),
   key_learnings |-> recentLearnings(memory.key_learnings)]

NoContext == [built |-> FALSE, sections |-> {}, next_actions |-> <<>>, key_learnings |-> <<>>]

\* one run of the context builder on the memory at hand
BuilderRun ==
  /\ ~bcContext.built
  /\ bcContext' = buildContext(bcMemory)
  /\ UNCHANGED <<bcMemory, atTranscript, atAnalysis, chHandoff, chSaved, chLoaded,
                 hookVars, handoffs, supVars, seVars>>

\* the memory update of the next boundary adds a key learning
BuilderNextMemory ==
  /\ bcContext.built
  /\ Len(bcMemory.key_learnings) < MaxLearnings
  /\ bcMemory' = [bcMemory EXCEPT
                    !.key_learnings = EntriesUpTo(Len(bcMemory.key_learnings) + 1)]
  /\ bcContext' = NoContext
  /\ UNCHANGED <<atTranscript, atAnalysis, chHandoff, chSaved, chLoaded,
                 hookVars, handoffs, supVars, seVars>>

----------------------------------------------------------------------------
(* scripts/save-cycle-handoff.ts, scripts/load-cycle-handoff.ts *)

HandoffFields ==
  <<"session_id", "cycle_number", "original_objective", "context_pct",
    "accomplishments", "blockers", "next_actions", "key_learnings">>

ArrayFields == {"accomplishments", "blockers", "next_actions", "key_learnings"}

NumberFields == {"cycle_number", "context_pct"}

\* arrays of at most n entries
RECURSIVE ItemsUpTo(_)
ItemsUpTo(n) ==
  IF n = 0 THEN {<<>>}
  ELSE LET shorter == ItemsUpTo(n - 1)
       IN  shorter \cup {Append(t, e) : t \in {q \in shorter : Len(q) = n - 1},
                                        e \in {"Item 1", "Item 2"}}

\* the handoffs given to the save
CycleHandoffs ==
  [session_id : {"ralph-roundtrip-test"}, cycle_number : {1, 2},
   original_objective : {"Test objective"}, context_pct : {55},
   accomplishments : ItemsUpTo(MaxItems), blockers : ItemsUpTo(MaxItems),
   next_actions : ItemsUpTo(MaxItems), key_learnings : ItemsUpTo(MaxItems)]

\* one token of the stored text: a key, a string, a number, [ or ]
Token(kind, text, num) == [kind |-> kind, text |-> text, num |-> num]

\* ["Item 1","Item 2"]
serializeArray(a) ==
  <<Token("[", "", 0)>> \o [i \in DOMAIN a |-> Token("str", a[i], 0)]
    \o <<Token("]", "", 0)>>

\* variant: a member whose array is empty left out of the text
serializeMember_OmitEmpty(h, field) ==
  IF field \in ArrayFields
  THEN IF h[field] = <<>> THEN <<>>
       ELSE <<Token("key", field, 0)>> \o serializeArray(h[field])
  ELSE IF field \in NumberFields
       THEN <<Token("key", field, 0), Token("num", "", h[field])>>
       ELSE <<Token("key", field, 0), Token("str", h[field], 0)>>

\* "field":value
serializeMember(h, field) ==
  <<Token("key", field, 0)>> \o
    (IF field \in ArrayFields THEN serializeArray(h[field])
     ELSE IF field \in NumberFields THEN <<Token("num", "", h[field])>>
     ELSE <<Token("str", h[field], 0)>>)

\* the text stored for a handoff: its members from the i-th on
RECURSIVE serializeFrom(_, _)
serializeFrom(h, i) ==
  IF i > Len(HandoffFields) THEN <<>>
  ELSE serializeMember(h, HandoffFields[i]) \o serializeFrom(h, i + 1)

serializeHandoff(h) == serializeFrom(h, 1)

\* the entries up to the closing ], and the tokens after it
RECURSIVE parseArray(_, _)
parseArray(tokens, items) ==
  IF Head(tokens).kind = "]" THEN [value |-> items, rest |-> Tail(tokens)]
  ELSE parseArray(Tail(tokens), Append(items, Head(tokens).text))

\* one value, and the tokens after it
parseValue(tokens) ==
  LET t == Head(tokens) IN
  IF t.kind = "[" THEN parseArray(Tail(tokens), <<>>)
  ELSE IF t.kind = "num" THEN [value |-> t.num, rest |-> Tail(tokens)]
  ELSE [value |-> t.text, rest |-> Tail(tokens)]

\* the members read from the text, added to those read before
RECURSIVE parseMembers(_, _)
parseMembers(tokens, members) ==
  IF tokens = <<>> THEN members
  ELSE LET v == parseValue(Tail(tokens))
       IN  parseMembers(v.rest, members @@ (Head(tokens).text :> v.value))

\* the record read from a stored text
parseHandoff(tokens) ==
  LET v == parseValue(Tail(tokens))
  IN  parseMembers(v.rest, Head(tokens).text :> v.value)

NotFound == [found |-> FALSE, handoff |-> <<>>]

\* save-cycle-handoff.ts: the handoff is stored as text
HandoffSave ==
  /\ chSaved = <<>>
  /\ chSaved' = serializeHandoff(chHandoff)
  /\ UNCHANGED <<chHandoff, chLoaded, atTranscript, atAnalysis, bcMemory, bcContext,
                 hookVars, handoffs, supVars, seVars>>

\* load-cycle-handoff.ts: the stored text is read back
HandoffLoad ==
  /\ chSaved # <<>>
  /\ ~chLoaded.found
  /\ chLoaded' = [found |-> TRUE, handoff |-> parseHandoff(chSaved)]
  /\ UNCHANGED <<chHandoff, chSaved, atTranscript, atAnalysis, bcMemory, bcContext,
                 hookVars, handoffs, supVars, seVars>>

----------------------------------------------------------------------------
(* Initial states *)

\* the loop state files a boundary step can find
LoopConfigs ==
  {[exists |-> TRUE, iteration |-> i, max_iterations |-> m, completion_promise |-> cp,
    checkpoint_interval |-> ck[1], checkpoint_mode |-> ck[2], cycle_number |-> 1,
    current |-> "explore", bytes |-> "all", session_id |-> 1, stuck_count |-> 0,
    prompt |-> <<TextLine>>] :
     i \in {1, Corrupt},
     m \in (0 .. MaxIter) \cup {Corrupt},
     cp \in {<<>>, <<"D">>},
     ck \in {<<0, "notify">>, <<2, "notify">>, <<2, "pause">>}}

\* the loop state files used for the two overlapping invocations
ConcConfigs ==
  {c \in LoopConfigs : /\ c.iteration = 1
                       /\ c.max_iterations \in {0, 2}
                       /\ c.checkpoint_interval = 0}

\* the loop state files of a loop that has just been set up, with the
\* session_id line holding an id, holding nothing, or not there
RunConfigs ==
  {[exists |-> TRUE, iteration |-> 1, max_iterations |-> 0, completion_promise |-> cp,
    checkpoint_interval |-> 0, checkpoint_mode |-> "notify", cycle_number |-> 1,
    current |-> "explore", bytes |-> "all", session_id |-> sid, stuck_count |-> 0,
    prompt |-> pt] :
     cp \in {<<>>, <<"D">>}, sid \in {1, 0, Absent}, pt \in Prompts}

HookIdle ==
  /\ tempFile = [p \in Procs |-> NoFile]
  /\ lockPath = 0
  /\ fd = [p \in Procs |-> 0]
  /\ holder = [i \in Inodes |-> 0]
  /\ nudgeFile = FALSE
  /\ checkpointFile = FALSE
  /\ summary = NoSummary
  /\ pc = [p \in Procs |-> "idle"]
  /\ inp = [p \in Procs |-> NoInput]
  /\ loc = [p \in Procs |-> NoLocals]
  /\ out = [p \in Procs |-> "none"]
  /\ ending = [p \in Procs |-> "running"]
  /\ exitCode = [p \in Procs |-> 0]
  /\ updated = [p \in Procs |-> FALSE]
  /\ overlap = [p \in Procs |-> FALSE]
  /\ cancelled = FALSE
  /\ memoryCalls = {}
  /\ statusCalls = {}
  /\ quiet = 0
  /\ sessionIds = {}
  /\ phases = [p \in Procs |-> <<>>]

\* lines 165-188 of run-supervisor.sh
SupInit ==
  /\ supPc = "while"
  /\ CYCLE = 1
  /\ RETRY_COUNT = 0
  /\ EXIT_CODE = 0
  /\ TOTAL_ITERATIONS = 0
  /\ HANDOFF_CONTEXT = 0
  /\ CYCLE_PROMPT = <<>>
  /\ supState = [status |-> "running", current_cycle |-> 0, total_iterations |-> 0,
                 exit_code |-> 0]
  /\ supExit = -1
  /\ runsOfCycle = 0
  /\ saveCalls = {}
  /\ lastCase = "none"
  /\ handoffReads = [n \in 1 .. MaxCyclesArg |-> 0]
  /\ supRecorded = "none"
  /\ agentRuns = 0

\* the helper scripts before any input
AnalyzerIdle ==
  /\ atTranscript = [errors |-> <<>>, file |-> FALSE, test |-> FALSE, phase |-> FALSE,
                     chars |-> 19, fence |-> FALSE]
  /\ atAnalysis = NoAnalysis

BuilderIdle ==
  /\ bcMemory = [key_learnings |-> <<>>, next_actions |-> <<>>, current_status |-> FALSE]
  /\ bcContext = NoContext

HandoffIdle ==
  /\ chHandoff = [session_id |-> "ralph-roundtrip-test", cycle_number |-> 1,
                  original_objective |-> "Test objective", context_pct |-> 55,
                  accomplishments |-> <<>>, blockers |-> <<>>, next_actions |-> <<>>,
                  key_learnings |-> <<>>]
  /\ chSaved = <<>>
  /\ chLoaded = NotFound

ScriptsIdle == AnalyzerIdle /\ BuilderIdle /\ HandoffIdle

StrategyIdle ==
  /\ seState = [iteration |-> 0, stuck_count |-> 0, current |-> "explore"]
  /\ seAnalysis = [repeated_errors |-> <<>>]
  /\ seResult = "none"
  /\ seInput = "ok"
  /\ seOutput = NoOutput

\* everything but the helper scripts before any run
OthersIdle ==
  /\ stateFile = NoFile
  /\ iter0 = 0
  /\ HookIdle
  /\ handoffs = {}
  /\ MAX_CYCLES = 1
  /\ SupInit
  /\ StrategyIdle

Init ==
  /\ stateFile \in LoopConfigs
  /\ iter0 = stateFile.iteration
  /\ HookIdle
  /\ handoffs = {}
  /\ MAX_CYCLES = 1
  /\ SupInit
  /\ StrategyIdle
  /\ ScriptsIdle

InitConc ==
  /\ stateFile \in ConcConfigs
  /\ iter0 = stateFile.iteration
  /\ HookIdle
  /\ handoffs = {}
  /\ MAX_CYCLES = 1
  /\ SupInit
  /\ StrategyIdle
  /\ ScriptsIdle

InitRerun ==
  /\ stateFile \in {c \in ConcConfigs : c.completion_promise = <<>>}
  /\ iter0 = stateFile.iteration
  /\ HookIdle
  /\ handoffs = {}
  /\ MAX_CYCLES = 1
  /\ SupInit
  /\ StrategyIdle
  /\ ScriptsIdle

InitLoop ==
  /\ stateFile \in RunConfigs
  /\ iter0 = stateFile.iteration
  /\ HookIdle
  /\ handoffs = {}
  /\ MAX_CYCLES = 1
  /\ SupInit
  /\ StrategyIdle
  /\ ScriptsIdle

InitSup ==
  /\ stateFile = NoFile
  /\ iter0 = 0
  /\ HookIdle
  /\ handoffs = {}
  /\ MAX_CYCLES \in 1 .. MaxCyclesArg
  /\ SupInit
  /\ StrategyIdle
  /\ ScriptsIdle

InitStrategy ==
  /\ stateFile = NoFile
  /\ iter0 = 0
  /\ HookIdle
  /\ handoffs = {}
  /\ MAX_CYCLES = 1
  /\ SupInit
  /\ \/ /\ seInput = "ok"
        /\ seState \in EngineStates
        /\ seAnalysis \in EngineAnalyses
     \/ /\ seInput \in InputKinds \ {"ok"}
        /\ seState = [iteration |-> 0, stuck_count |-> 0, current |-> "explore"]
        /\ seAnalysis = [repeated_errors |-> <<>>]
  /\ seResult = "none"
  /\ seOutput = NoOutput
  /\ ScriptsIdle

InitAnalyzer ==
  /\ OthersIdle
  /\ atTranscript \in Transcripts
  /\ atAnalysis = NoAnalysis
  /\ BuilderIdle
  /\ HandoffIdle

InitBuilder ==
  /\ OthersIdle
  /\ AnalyzerIdle
  /\ bcMemory \in Memories
  /\ bcContext = NoContext
  /\ HandoffIdle

InitHandoff ==
  /\ OthersIdle
  /\ AnalyzerIdle
  /\ BuilderIdle
  /\ chHandoff \in CycleHandoffs
  /\ chSaved = <<>>
  /\ chLoaded = NotFound

----------------------------------------------------------------------------
(* Specifications *)

ConcTexts == {<<"D">>, <<"O", "D", "C">>}

ConcRawStrategies == {"focused", "bogus"}

\* the helper scripts all succeed; the strategy engine prints one of raws
RunsWith(raws) ==
  {[failed |-> {}, analysis |-> [repeated_errors |-> <<>>, meaningful_changes |-> TRUE],
    raw |-> s] : s \in raws}

FreeRuns(L) == RunsWith(ConcRawStrategies)

\* which helper scripts exit non-zero at one boundary: none, one, all of them
FailureSets == {{}, Scripts} \cup {{f} : f \in Scripts}

\* what the analyzer can report of the last turn
LoopAnalyses == [repeated_errors : {<<>>, <<3>>}, meaningful_changes : BOOLEAN]

\* lines 177-225: the analysis, or its default, goes with the state read from
\* the state file into the strategy engine, whose result or default is the
\* strategy
EngineRuns(L) ==
  {LET analysis == AnalysisOrDefault(f, a)
       STATE_JSON == [iteration |-> L.ITERATION, stuck_count |-> L.STUCK_COUNT,
                      current |-> L.CURRENT_STRATEGY]
   IN  [failed |-> f, analysis |-> analysis,
        raw |-> StrategyOrDefault(f, runEngine("ok", STATE_JSON, analysis).strategy)] :
     f \in FailureSets, a \in LoopAnalyses}

\* the strategy engine exits 0 with an output whose .strategy is no strategy:
\* jq -r '.strategy' (line 225) prints another string, or null for an output
\* without .strategy
GarbageRuns ==
  {[failed |-> {}, analysis |-> a, raw |-> s] :
     a \in LoopAnalyses, s \in {"bogus", "null"}}

LoopRuns(L) == EngineRuns(L) \cup GarbageRuns

Active(position) == position \notin {"idle", "done"}

NoHookRunning == \A p \in Procs : ~Active(pc[p])

\* history: an invocation is overlapped once another one is running with it
TrackOverlap ==
  overlap' = [q \in Procs |->
                IF pc'[q] = "idle" THEN FALSE
                ELSE \/ overlap[q]
                     \/ Active(pc'[q]) /\ \E r \in Procs \ {q} : Active(pc'[r])]

\* history: a cancellation overlaps every running invocation
TrackCancel == overlap' = [q \in Procs |-> overlap[q] \/ Active(pc[q])]

\* boundary invocations one after the other; the operator acts between them
Next ==
  \/ HookStart(1, TextsUpTo(MaxMsgLen), MaxIter) /\ TrackOverlap /\ UNCHANGED nonHookVars
  \/ HookDecide(1, FreeRuns(loc[1])) /\ TrackOverlap /\ UNCHANGED nonHookVars
  \/ HookOpenLock(1) /\ TrackOverlap /\ UNCHANGED nonHookVars
  \/ HookAcquire(1) /\ TrackOverlap /\ UNCHANGED nonHookVars
  \/ HookRedirect(1) /\ TrackOverlap /\ UNCHANGED nonHookVars
  \/ HookSed(1) /\ TrackOverlap /\ UNCHANGED nonHookVars
  \/ HookMv(1) /\ TrackOverlap /\ UNCHANGED nonHookVars
  \/ HookRmLock(1) /\ TrackOverlap /\ UNCHANGED nonHookVars
  \/ HookFinish(1, CoarseSizes) /\ TrackOverlap /\ UNCHANGED nonHookVars
  \/ AgentTurn(1) /\ TrackOverlap /\ UNCHANGED nonHookVars
  \/ NoHookRunning /\ Cancel /\ TrackCancel /\ UNCHANGED nonHookVars
  \/ NoHookRunning /\ Nudge /\ TrackOverlap /\ UNCHANGED nonHookVars
  \/ NoHookRunning /\ CheckpointContinue /\ TrackOverlap /\ UNCHANGED nonHookVars

Spec == Init /\ [][Next]_vars

\* two overlapping boundary invocations, one per process
NextConc ==
  \/ \E p \in Procs : HookStart(p, ConcTexts, MaxIter) /\ TrackOverlap /\ UNCHANGED nonHookVars
  \/ \E p \in Procs : HookDecide(p, FreeRuns(loc[p])) /\ TrackOverlap /\ UNCHANGED nonHookVars
  \/ \E p \in Procs : HookOpenLock(p) /\ TrackOverlap /\ UNCHANGED nonHookVars
  \/ \E p \in Procs : HookAcquire(p) /\ TrackOverlap /\ UNCHANGED nonHookVars
  \/ \E p \in Procs : HookLockTimeout(p) /\ TrackOverlap /\ UNCHANGED nonHookVars
  \/ \E p \in Procs : HookRedirect(p) /\ TrackOverlap /\ UNCHANGED nonHookVars
  \/ \E p \in Procs : HookSed(p) /\ TrackOverlap /\ UNCHANGED nonHookVars
  \/ \E p \in Procs : HookMv(p) /\ TrackOverlap /\ UNCHANGED nonHookVars
  \/ \E p \in Procs : HookRmLock(p) /\ TrackOverlap /\ UNCHANGED nonHookVars
  \/ \E p \in Procs : HookFinish(p, CoarseSizes) /\ TrackOverlap /\ UNCHANGED nonHookVars
  \/ Cancel /\ TrackCancel /\ UNCHANGED nonHookVars

SpecConc == InitConc /\ [][NextConc]_vars

\* overlapping boundary invocations, each process invoked again after it has
\* exited: more than two invocations over the life of the loop
NextRerun ==
  \/ \E p \in Procs : HookStart(p, {<<"D">>}, MaxRerunIter) /\ TrackOverlap /\ UNCHANGED nonHookVars
  \/ \E p \in Procs : HookDecide(p, FreeRuns(loc[p])) /\ TrackOverlap /\ UNCHANGED nonHookVars
  \/ \E p \in Procs : HookOpenLock(p) /\ TrackOverlap /\ UNCHANGED nonHookVars
  \/ \E p \in Procs : HookAcquire(p) /\ TrackOverlap /\ UNCHANGED nonHookVars
  \/ \E p \in Procs : HookLockTimeout(p) /\ TrackOverlap /\ UNCHANGED nonHookVars
  \/ \E p \in Procs : HookRedirect(p) /\ TrackOverlap /\ UNCHANGED nonHookVars
  \/ \E p \in Procs : HookSed(p) /\ TrackOverlap /\ UNCHANGED nonHookVars
  \/ \E p \in Procs : HookMv(p) /\ TrackOverlap /\ UNCHANGED nonHookVars
  \/ \E p \in Procs : HookRmLock(p) /\ TrackOverlap /\ UNCHANGED nonHookVars
  \/ \E p \in Procs : HookFinish(p, CoarseSizes) /\ TrackOverlap /\ UNCHANGED nonHookVars
  \/ \E p \in Procs : AgentTurn(p) /\ TrackOverlap /\ UNCHANGED nonHookVars

SpecRerun == InitRerun /\ [][NextRerun]_vars

\* a loop run, boundary after boundary, with helper scripts that can fail
NextLoop ==
  \/ HookStart(1, ConcTexts, MaxLoopIter) /\ TrackOverlap /\ UNCHANGED nonHookVars
  \/ HookDecide(1, LoopRuns(loc[1])) /\ TrackOverlap /\ UNCHANGED nonHookVars
  \/ HookOpenLock(1) /\ TrackOverlap /\ UNCHANGED nonHookVars
  \/ HookAcquire(1) /\ TrackOverlap /\ UNCHANGED nonHookVars
  \/ HookRedirect(1) /\ TrackOverlap /\ UNCHANGED nonHookVars
  \/ HookSed(1) /\ TrackOverlap /\ UNCHANGED nonHookVars
  \/ HookMv(1) /\ TrackOverlap /\ UNCHANGED nonHookVars
  \/ HookRmLock(1) /\ TrackOverlap /\ UNCHANGED nonHookVars
  \/ HookFinish(1, TranscriptSizes) /\ TrackOverlap /\ UNCHANGED nonHookVars
  \/ AgentTurn(1) /\ TrackOverlap /\ UNCHANGED nonHookVars

SpecLoop == InitLoop /\ [][NextLoop]_vars

NextSup ==
  \/ SupStartCycle /\ UNCHANGED <<seVars, scriptVars>>
  \/ SupCase0 /\ UNCHANGED <<seVars, scriptVars>>
  \/ SupCase100 /\ UNCHANGED <<seVars, scriptVars>>
  \/ SupRetry /\ UNCHANGED <<seVars, scriptVars>>
  \/ SupFail /\ UNCHANGED <<seVars, scriptVars>>
  \/ SupMaxCycles /\ UNCHANGED <<seVars, scriptVars>>

SpecSup == InitSup /\ [][NextSup]_vars

\* every agent loop returns and the supervisor's script goes on to its next command
SpecSupFair == InitSup /\ [][NextSup]_vars /\ WF_vars(NextSup)

NextAnalyzer ==
  \/ AnalyzerRun
  \/ AnalyzerNextTranscript

SpecAnalyzer == InitAnalyzer /\ [][NextAnalyzer]_vars

NextBuilder ==
  \/ BuilderRun
  \/ BuilderNextMemory

SpecBuilder == InitBuilder /\ [][NextBuilder]_vars

NextHandoff ==
  \/ HandoffSave
  \/ HandoffLoad

SpecHandoff == InitHandoff /\ [][NextHandoff]_vars

NextStrategy ==
  \/ StrategyRun /\ UNCHANGED scriptVars
  \/ StrategyNextInput /\ UNCHANGED scriptVars

SpecStrategy == InitStrategy /\ [][NextStrategy]_vars

----------------------------------------------------------------------------
(* Properties *)

\* the text holds a <promise> ... </promise> pair
HasTag(s) ==
  \E i, j \in 1 .. Len(s) : i < j /\ s[i] = "O" /\ s[j] = "C"

\* the text holds <promise>phrase</promise>
ContainsTagged(s, phrase) ==
  \E i \in 1 .. Len(s) :
    /\ i + Len(phrase) + 1 <= Len(s)
    /\ SubSeq(s, i, i + Len(phrase) + 1) = <<"O">> \o phrase \o <<"C">>

\* the invocation found an active loop with numeric counters and got a last
\* assistant message
SawMessage(p) ==
  /\ pc[p] = "done"
  /\ ending[p] # "no_loop"
  /\ loc[p].ITERATION # Corrupt
  /\ loc[p].MAX_ITERATIONS # Corrupt
  /\ inp[p].transcript = "ok"
  /\ inp[p].text # <<>>

\* C1: at a boundary of a loop with completion promise P, a last assistant
\* message containing <promise>P</promise> ends the loop with completion reason
\* 'promise' (outcome completed) and removes the loop state, whatever the
\* values of iteration and maxIterations.
C1_PromiseEndsLoop ==
  \A p \in Procs :
    ( /\ SawMessage(p)
      /\ loc[p].COMPLETION_PROMISE # <<>>
      /\ ContainsTagged(inp[p].text, loc[p].COMPLETION_PROMISE) )
    => ( /\ ending[p] = "promise"
         /\ ~stateFile.exists
         /\ summary.written => summary.outcome = "completed" )

\* C2: a loop with maxIterations = N > 0 and no completion promise gets a
\* continue decision only at a boundary whose stored iteration is below N; at
\* the boundary where iteration >= N the step ends with completion reason
\* 'max_iterations', outcome partial or incomplete and never completed, no
\* continue decision, and the loop state removed.
C2_MaxIterationsEndsLoop ==
  \A p \in Procs :
    ( /\ ending[p] # "no_loop"
      /\ loc[p].ITERATION # Corrupt
      /\ loc[p].MAX_ITERATIONS > 0
      /\ loc[p].COMPLETION_PROMISE = <<>> )
    => /\ out[p] # "none" => loc[p].ITERATION < loc[p].MAX_ITERATIONS
       /\ (pc[p] = "done" /\ loc[p].ITERATION >= loc[p].MAX_ITERATIONS)
            => /\ ending[p] = "max_iterations"
               /\ out[p] = "none"
               /\ ~stateFile.exists
               /\ summary.outcome # "completed"
               /\ summary.written => /\ summary.reason = "max_iterations"
                                     /\ summary.outcome \in {"partial", "incomplete"}
                                     /\ summary.final_iteration = loc[p].ITERATION

\* C2 witness: after at least one continue the loop reached its cap and ended
C2_Witness ==
  /\ pc[1] = "done"
  /\ ending[1] = "max_iterations"
  /\ loc[1].COMPLETION_PROMISE = <<>>
  /\ loc[1].ITERATION > iter0
  /\ loc[1].ITERATION = loc[1].MAX_ITERATIONS
  /\ summary.written
  /\ ~stateFile.exists

\* C3: when two boundary invocations run on the same loop state, once both have
\* replaced the state file the stored iteration is the initial iteration plus 2.
C3_NoLostUpdate ==
  ((\A p \in Procs : updated[p]) /\ stateFile.exists)
    => stateFile.iteration = iter0 + 2

C5_BoundedRetry ==
  /\ [](runsOfCycle <= MAX_RETRIES + 1)
  /\ []((supPc = "exited" /\ lastCase = "error")
          => /\ runsOfCycle = MAX_RETRIES + 1
             /\ EXIT_CODE \notin {0, 100}
             /\ supExit = EXIT_CODE)
  /\ [][ (supPc = "agent" /\ supPc' # "agent" /\ EXIT_CODE' \notin {0, 100})
           => IF runsOfCycle <= MAX_RETRIES
              THEN CYCLE' = CYCLE /\ supPc' = "while" /\ supExit' = -1
              ELSE supPc' = "exited" /\ supExit' = EXIT_CODE' ]_vars
  /\ [][ (lastCase = "retry" /\ supPc = "while")
           => supPc' = "agent" /\ CYCLE' = CYCLE /\ runsOfCycle' = runsOfCycle + 1 ]_vars

\* C5 witness: a later cycle used both retries and failed a third time
C5_Witness ==
  /\ supPc = "exited"
  /\ lastCase = "error"
  /\ CYCLE = 2
  /\ runsOfCycle = MAX_RETRIES + 1
  /\ supExit = 2

\* C6: the supervisor exits 0 exactly when the task completed (an agent loop
\* exited 0 and status completed was recorded).
C6_ExitZeroIffCompleted ==
  supPc = "exited" =>
    (supExit = 0 <=> (lastCase = "0" /\ supState.status = "completed"))

\* C7: no agent loop is started with a cycle number above MAX_CYCLES; once the
\* cycle counter has passed MAX_CYCLES the supervisor stops in the state
\* max_cycles, exit status 0, with current_cycle = MAX_CYCLES recorded.
C7_MaxCycles ==
  /\ [](supPc = "agent" => (CYCLE <= MAX_CYCLES /\ supState.current_cycle = CYCLE))
  /\ []((supPc = "exited" /\ CYCLE > MAX_CYCLES)
          => /\ supState.status = "max_cycles"
             /\ supState.current_cycle = MAX_CYCLES
             /\ supExit = 0)
  /\ [][ (supPc = "while" /\ CYCLE > MAX_CYCLES)
           => supPc' = "exited" /\ supState'.status = "max_cycles" ]_vars

\* C7 witness: the last allowed cycle ended on the threshold and the supervisor stopped
C7_Witness ==
  /\ supPc = "exited"
  /\ MAX_CYCLES >= 2
  /\ CYCLE = MAX_CYCLES + 1
  /\ supState.status = "max_cycles"
  /\ supState.current_cycle = MAX_CYCLES

\* C8: with a completion promise configured and maxIterations = 0, a last
\* assistant message without a <promise> tag never ends the loop through the
\* promise check, whatever its text.
C8_NoTagNoCompletion ==
  \A p \in Procs :
    ( /\ SawMessage(p)
      /\ loc[p].COMPLETION_PROMISE # <<>>
      /\ loc[p].MAX_ITERATIONS = 0
      /\ ~HasTag(inp[p].text) )
    => ending[p] # "promise"

\* C9: the promise check succeeds exactly when the message has a <promise> tag
\* whose text, trimmed and with whitespace runs collapsed, equals the phrase.
C9_TagTextEquality ==
  \A p \in Procs :
    ( /\ SawMessage(p)
      /\ loc[p].COMPLETION_PROMISE # <<>>
      /\ ~MaxReached(loc[p].ITERATION, loc[p].MAX_ITERATIONS) )
    => ( ending[p] = "promise"
         <=> ( /\ HasTag(inp[p].text)
               /\ PromiseText(inp[p].text) = loc[p].COMPLETION_PROMISE ) )

\* the step on which invocation p exits after it found an active loop
ExitsOnActiveLoop(p) ==
  pc[p] # "done" /\ pc'[p] = "done" /\ ending'[p] # "no_loop"

\* continue: a block decision and the state present; terminate: neither
TwoOutcomes(p) ==
  \/ out'[p] # "none" /\ stateFile'.exists
  \/ out'[p] = "none" /\ ~stateFile'.exists

LoopEndings ==
  {"promise", "max_iterations", "context_threshold", "corrupt", "no_transcript",
   "no_assistant", "empty"}

\* C11: every path on which the boundary step ends the loop (promise matched,
\* iteration cap, context threshold, corrupted counters, missing transcript, no
\* or empty assistant message) has written a final summary with an outcome
\* category, the reason and the final iteration count when the loop state is
\* removed.
C11_SummaryOnEveryEnd ==
  \A p \in Procs :
    (pc[p] = "done" /\ ending[p] \in LoopEndings)
      => /\ ~stateFile.exists
         /\ summary.written
         /\ summary.outcome \in
              {"completed", "partial", "incomplete", "cancelled", "error", "cycling"}
         /\ summary.reason # "none"
         /\ loc[p].ITERATION # Corrupt => summary.final_iteration = loc[p].ITERATION

\* C12: a boundary invocation that cannot acquire the exclusive state lock
\* within the timeout aborts only its own update: on that step the loop state
\* record stays as it is, iteration and strategy.current included, it still
\* exists unless the operator has cancelled the loop, no summary is written, the
\* invocation leaves no temp file behind and emits no decision.
C12_LockFailureKeepsLoop ==
  [][ \A p \in Procs :
        (pc[p] = "flock" /\ pc'[p] = "done")
          => /\ ending'[p] = "lock_failed"
             /\ stateFile' = stateFile
             /\ stateFile'.exists \/ cancelled
             /\ summary' = summary
             /\ ~tempFile'[p].exists
             /\ ~updated'[p]
             /\ out'[p] = "none" ]_vars

\* C12 witness: one invocation timed out on the lock, the other one completed
\* its update, and the loop state is there with the iteration advanced once
C12_Witness ==
  \E p, q \in Procs :
    /\ pc[p] = "done"
    /\ ending[p] = "lock_failed"
    /\ exitCode[p] = 1
    /\ updated[q]
    /\ ~cancelled
    /\ stateFile.exists
    /\ stateFile.iteration = iter0 + 1

\* C13: at every instant the loop state file, when it exists, holds a complete
\* state, never an empty or partly written one; and every change of the file
\* is its removal or, in one step, the replacement of the previous state by the
\* complete new state, the previous one with iteration and strategy.current
\* rewritten.
C13_AtomicSave ==
  /\ [](stateFile.exists => stateFile.bytes = "all")
  /\ [][ stateFile' # stateFile
           => \/ ~stateFile'.exists
              \/ \E p \in Procs :
                   /\ pc[p] = "mv"
                   /\ stateFile'.bytes = "all"
                   /\ stateFile' =
                        [(IF stateFile.exists THEN stateFile ELSE tempFile[p])
                           EXCEPT !.iteration = loc[p].NEXT_ITERATION,
                                  !.current = loc[p].NEW_STRATEGY] ]_vars

\* C13 witness: while one invocation has its temp file partly written, another
\* one has read the state file and got the complete previous state
C13_Witness ==
  \E p, q \in Procs :
    /\ p # q
    /\ tempFile[p].exists
    /\ tempFile[p].bytes = "partial"
    /\ pc[q] = "decide"
    /\ loc[q].ITERATION = iter0
    /\ stateFile.exists
    /\ stateFile.iteration = iter0

\* the counters an invocation read are not both non-negative integers
CorruptCounters(p) ==
  loc[p].ITERATION = Corrupt \/ loc[p].MAX_ITERATIONS = Corrupt

\* C14: when the stored iteration or maxIterations is not a non-negative
\* integer the boundary step discards the state file and ends the loop: it
\* emits no continue decision and does no analysis, strategy decision, memory
\* or status update, nudge read or state increment with the corrupted values.
C14_CorruptCountersEndLoop ==
  /\ [](\A p \in Procs : CorruptCounters(p) => pc[p] \in {"decide", "done"})
  /\ [][ \A p \in Procs :
           (pc[p] = "decide" /\ pc'[p] # "decide" /\ CorruptCounters(p))
             => /\ pc'[p] = "done"
                /\ ending'[p] = "corrupt"
                /\ ~stateFile'.exists
                /\ out'[p] = "none"
                /\ loc'[p] = loc[p]
                /\ ~loc'[p].ANALYSIS
                /\ ~loc'[p].STRATEGY
                /\ memoryCalls' = memoryCalls
                /\ statusCalls' = statusCalls
                /\ nudgeFile' = nudgeFile
                /\ ~updated'[p] ]_vars

\* C14 witness: a state file with a numeric iteration and a corrupted
\* max_iterations was discarded, with the operator's nudge left unread
C14_Witness ==
  /\ pc[1] = "done"
  /\ ending[1] = "corrupt"
  /\ loc[1].ITERATION = 1
  /\ loc[1].MAX_ITERATIONS = Corrupt
  /\ nudgeFile
  /\ ~stateFile.exists
  /\ out[1] = "none"

\* C15: once a cancellation has removed the loop state record, the record
\* stays removed and a boundary invocation that starts afterwards finds no
\* active loop and does nothing: it exits at once with no continue decision,
\* recreates no loop state, leaves a pending nudge where it is and writes no
\* memory, status, summary, checkpoint or handoff.
C15_NoLoopAfterCancel ==
  /\ [](cancelled => ~stateFile.exists)
  /\ [][ \A p \in Procs :
           (pc[p] = "idle" /\ pc'[p] # "idle" /\ cancelled)
             => /\ pc'[p] = "done"
                /\ ending'[p] = "no_loop"
                /\ exitCode'[p] = 0
                /\ out'[p] = "none"
                /\ stateFile' = stateFile
                /\ nudgeFile' = nudgeFile
                /\ memoryCalls' = memoryCalls
                /\ statusCalls' = statusCalls
                /\ summary' = summary
                /\ checkpointFile' = checkpointFile
                /\ handoffs' = handoffs ]_vars

\* C15 witness: a loop that had run an iteration was cancelled with a nudge
\* pending; the next boundary invocation exited and the nudge is still there
C15_Witness ==
  /\ cancelled
  /\ memoryCalls # {}
  /\ pc[1] = "done"
  /\ ending[1] = "no_loop"
  /\ out[1] = "none"
  /\ nudgeFile
  /\ ~summary.written

\* C16: when checkpointMode = pause, checkpointInterval > 0 and (iteration+1)
\* mod checkpointInterval = 0 the boundary step emits the pause artifact and
\* the loop is halted: as long as the pause artifact is there, that is until
\* the operator's continue signal, no boundary step ends with a continue
\* decision carrying the working prompt.
C16_PauseHaltsLoop ==
  /\ \A p \in Procs :
       (pc[p] = "done" /\ ending[p] \in {"paused", "continue", "context_threshold"}
        /\ loc[p].CHECKPOINT_MODE = "pause" /\ loc[p].CHECKPOINT_INTERVAL > 0
        /\ loc[p].NEXT_ITERATION % loc[p].CHECKPOINT_INTERVAL = 0)
         => (ending[p] = "paused" /\ out[p] = "pause")
  /\ checkpointFile => \A p \in Procs : ~(pc[p] = "done" /\ out[p] = "block")

\* C17: a nudge present at an iteration boundary is injected into the next
\* iteration's context exactly once and then removed: once an invocation has
\* read it the nudge file is gone, so no later boundary injects it again, and
\* every invocation that removed it ends with the continue decision that
\* carries it to the agent.
C17_NudgeInjectedOnce ==
  \A p \in Procs :
    /\ (Active(pc[p]) /\ loc[p].NUDGE_CONTENT) => ~nudgeFile
    /\ (pc[p] = "done" /\ loc[p].NUDGE_CONTENT) => out[p] = "block"

\* the cycle number of the most recent handoff in the store
MostRecentHandoff ==
  CHOOSE n \in {h.cycle_number : h \in handoffs} : \A h \in handoffs : h.cycle_number <= n

\* C18: the prompt of every cycle after the first is built by loading the
\* most recent handoff: the continuation text of that handoff followed by the
\* unchanged original objective; when no handoff is found or the load fails the
\* prompt is exactly the original objective, and the supervisor goes on to run
\* the cycle without error.  The first cycle runs the original objective.
C18_HandoffPrompt ==
  supPc = "agent" =>
    /\ supExit = -1
    /\ CYCLE = 1 => (HANDOFF_CONTEXT = 0 /\ CYCLE_PROMPT = <<PROMPT>>)
    /\ handoffs = {} => (HANDOFF_CONTEXT = 0 /\ CYCLE_PROMPT = <<PROMPT>>)
    /\ IF HANDOFF_CONTEXT = 0
       THEN CYCLE_PROMPT = <<PROMPT>>
       ELSE /\ CYCLE > 1
            /\ HANDOFF_CONTEXT = MostRecentHandoff
            /\ CYCLE_PROMPT = <<FormattedContext(MostRecentHandoff), PROMPT>>

\* C18 witness: cycle 3 runs with the handoff of cycle 2, the most recent of
\* the two stored, ahead of the objective
C18_Witness ==
  /\ supPc = "agent"
  /\ CYCLE = 3
  /\ {h.cycle_number : h \in handoffs} = {1, 2}
  /\ CYCLE_PROMPT = <<FormattedContext(2), PROMPT>>

\* C18 witness of the other case: cycle 2 of a session whose handoff is stored
\* runs the objective alone because the load failed
C18_WitnessFresh ==
  /\ supPc = "agent"
  /\ CYCLE = 2
  /\ handoffs # {}
  /\ HANDOFF_CONTEXT = 0
  /\ CYCLE_PROMPT = <<PROMPT>>

\* some repeated error pattern of the input was counted n times or more
SomeErrorCount(n) ==
  \E i \in DOMAIN seAnalysis.repeated_errors : seAnalysis.repeated_errors[i] >= n

\* C19: the strategy engine returns recovery if and only if some
\* repeatedErrors entry has count >= 3 or stuckCount >= 5; when that holds the
\* result is recovery for every iteration number, whatever the phase table says.
C19_RecoveryIff ==
  seResult # "none" =>
    (seResult = "recovery" <=> (SomeErrorCount(3) \/ seState.stuck_count >= 5))

\* C19 witness: recovery chosen in the cleanup phase on a repeated error alone
C19_Witness ==
  /\ seResult = "recovery"
  /\ seState.iteration >= 36
  /\ seState.stuck_count = 0
  /\ seState.current = "cleanup"
  /\ seAnalysis.repeated_errors = <<2, 3>>

\* C19 witness: recovery chosen in the explore phase on the stuck count alone
C19_WitnessStuck ==
  /\ seResult = "recovery"
  /\ seState.iteration = 1
  /\ seState.stuck_count = 5
  /\ ~SomeErrorCount(3)

\* no recovery condition holds for the input the engine has run on
NoRecoveryCondition ==
  /\ seResult # "none"
  /\ ~SomeErrorCount(3)
  /\ seState.stuck_count < 5

\* C20 (as claimed): with no recovery condition holding, the strategy for
\* iteration n is explore iff 1 <= n <= 10, focused iff 11 <= n <= 35 and
\* cleanup iff n >= 36, whatever the previous strategy.
C20_PhaseTable ==
  NoRecoveryCondition =>
    LET n == seState.iteration IN
    /\ seResult = "explore" <=> (1 <= n /\ n <= 10)
    /\ seResult = "focused" <=> (11 <= n /\ n <= 35)
    /\ seResult = "cleanup" <=> n >= 36

\* C20 (amended): with no recovery condition holding, the strategy for
\* iteration n is explore iff n <= 10, iteration 0 included, focused iff
\* 11 <= n <= 35 and cleanup iff n >= 36, whatever the previous strategy.
C20_PhaseTableFromZero ==
  NoRecoveryCondition =>
    LET n == seState.iteration IN
    /\ seResult = "explore" <=> n <= 10
    /\ seResult = "focused" <=> (11 <= n /\ n <= 35)
    /\ seResult = "cleanup" <=> n >= 36
    /\ seResult \in {"explore", "focused", "cleanup"}

\* C20 witness: iteration 36 with explore as the previous strategy gets cleanup
C20_Witness ==
  /\ NoRecoveryCondition
  /\ seState.iteration = 36
  /\ seState.current = "explore"
  /\ seResult = "cleanup"

\* C21: when several repeated-error entries are present, the recovery reason
\* names the first entry whose count is at or above the threshold 3: for
\* repeated errors [(A,2),(B,4),(C,3)] the reason references B and neither A
\* nor C.
C21_ReasonNamesFirstAtThreshold ==
  (seResult # "none" /\ seInput = "ok" /\ SomeErrorCount(3)) =>
    LET errors == seAnalysis.repeated_errors IN
    /\ seResult = "recovery"
    /\ seOutput.reason = "repeated"
    /\ \E i \in DOMAIN errors :
         /\ seOutput.patterns = {i}
         /\ errors[i] >= 3
         /\ \A j \in 1 .. (i - 1) : errors[j] < 3
    /\ errors = <<2, 4, 3>> => seOutput.patterns = {2}

\* C21 witness: [(A,2),(B,4),(C,3)] at iteration 5 gives a recovery whose
\* reason references B
C21_Witness ==
  /\ seState.iteration = 5
  /\ seAnalysis.repeated_errors = <<2, 4, 3>>
  /\ seResult = "recovery"
  /\ seOutput.patterns = {2}

\* C22: when no recovery condition holds, the strategy result's action is
\* switch exactly when the computed strategy differs from the loop state's
\* current strategy, and continue otherwise.
C22_SwitchIffStrategyDiffers ==
  (NoRecoveryCondition /\ seInput = "ok") =>
    /\ seOutput.action = "switch" <=> seResult # seState.current
    /\ seOutput.action = "continue" <=> seResult = seState.current

\* C22 witness: iteration 15 with explore as the current strategy switches to
\* focused
C22_Witness ==
  /\ NoRecoveryCondition
  /\ seInput = "ok"
  /\ seState.iteration = 15
  /\ seState.current = "explore"
  /\ seResult = "focused"
  /\ seOutput.action = "switch"

\* C22 witness: iteration 1 with explore as the current strategy continues
C22_WitnessContinue ==
  /\ NoRecoveryCondition
  /\ seInput = "ok"
  /\ seState.iteration = 1
  /\ seState.current = "explore"
  /\ seResult = "explore"
  /\ seOutput.action = "continue"

\* C23: for empty input, non-JSON input, or input missing the state or
\* analysis fields, the strategy engine does not fail: it exits successfully
\* and returns strategy explore with a reason marked as the default/fallback.
C23_DefaultOnBadInput ==
  (seResult # "none" /\ seInput \in {"empty", "invalid", "missing"}) =>
    /\ seOutput.exit = 0
    /\ seResult = "explore"
    /\ seOutput.reason = "default"

\* C23 witness: the engine has run on an object without state and analysis
C23_Witness ==
  /\ seInput = "missing"
  /\ seResult = "explore"
  /\ seOutput.exit = 0
  /\ seOutput.reason = "default"

C29_StuckAfterFiveQuiet ==
  /\ (quiet >= 5 /\ pc[1] = "done" /\ ending[1] = "continue") =>
       stateFile.stuck_count >= 5
  /\ (/\ quiet >= 6
      /\ pc[1] \notin {"idle", "decide"}
      /\ loc[1].STRATEGY
      /\ "strategy-engine" \notin loc[1].FAILED) =>
       loc[1].NEW_STRATEGY = "recovery"

\* C30: for the whole lifetime of a loop, every boundary step uses one and
\* the same non-empty sessionId for its memory, summary and handoff records,
\* also when the state file had no session_id and a fallback was generated;
\* the sessionId of a loop never changes between boundaries.
C30_OneSessionId ==
  /\ 0 \notin sessionIds
  /\ Cardinality(sessionIds) <= 1

\* the entry of repeated_errors at position i comes before the one at j
InOrder(errors, first, second) ==
  \/ first.count > second.count
  \/ /\ first.count = second.count
     /\ FirstOccurrence(errors, first.pattern) < FirstOccurrence(errors, second.pattern)

\* C25: repeatedErrors contains exactly one entry for each error label
\* occurring at least twice in the transcript, with count equal to its number
\* of occurrences (5 occurrences give one entry with count 5), ordered by
\* count descending with ties in pattern discovery order; labels occurring
\* once are absent.
C25_RepeatedErrors ==
  atAnalysis.ran =>
    LET errors == atTranscript.errors
        repeated == atAnalysis.repeated_errors
    IN  /\ \A label \in ErrorLabels :
             Occurrences(errors, label) >= 2 <=>
               \E i \in DOMAIN repeated : repeated[i].pattern = label
        /\ \A i, j \in DOMAIN repeated :
             repeated[i].pattern = repeated[j].pattern => i = j
        /\ \A i \in DOMAIN repeated :
             repeated[i].count = Occurrences(errors, repeated[i].pattern)
        /\ \A i, j \in DOMAIN repeated :
             i < j => InOrder(errors, repeated[i], repeated[j])

\* C25 witness: five occurrences of one label give one entry with count 5
C25_Witness ==
  /\ atAnalysis.ran
  /\ Len(atTranscript.errors) = 5
  /\ \A i \in 1 .. 5 : atTranscript.errors[i] = "TypeScript compilation error"
  /\ atAnalysis.repeated_errors =
       <<[pattern |-> "TypeScript compilation error", count |-> 5]>>

\* C25 witness: two labels found twice each come in the order they were
\* found, a label found once is left out
C25_WitnessTie ==
  /\ atAnalysis.ran
  /\ atTranscript.errors =
       <<"Test failure", "JavaScript syntax error", "TypeScript compilation error",
         "JavaScript syntax error", "Test failure">>
  /\ atAnalysis.repeated_errors =
       <<[pattern |-> "Test failure", count |-> 2],
         [pattern |-> "JavaScript syntax error", count |-> 2]>>

\* C26: meaningfulChanges is true if and only if at least one of these holds
\* for the transcript: a file was modified, a test run was detected, a phase
\* completion was detected, the assistant output is longer than the fixed
\* character threshold (500), or the output contains a fenced code block.
C26_MeaningfulChangesIff ==
  atAnalysis.ran =>
    (atAnalysis.meaningful_changes <=>
       \/ atTranscript.file
       \/ atTranscript.test
       \/ atTranscript.phase
       \/ atTranscript.chars > 500
       \/ atTranscript.fence)

\* C26 witness: an output of 529 characters and nothing else is meaningful
C26_Witness ==
  /\ atAnalysis.ran
  /\ atAnalysis.meaningful_changes
  /\ atTranscript.chars = 529
  /\ ~atTranscript.file /\ ~atTranscript.test /\ ~atTranscript.phase /\ ~atTranscript.fence

\* C26 witness: an output of 19 characters and nothing else is not
C26_WitnessShort ==
  /\ atAnalysis.ran
  /\ ~atAnalysis.meaningful_changes
  /\ atTranscript.chars = 19

\* C27: the built context has no KEY LEARNINGS section when the learnings
\* list is empty, and for a list of more than 5 learnings it includes exactly
\* the last 5 (most recent) and none of the earlier ones.
C27_KeyLearnings ==
  bcContext.built =>
    LET learnings == bcMemory.key_learnings
        shown == {bcContext.key_learnings[i] : i \in DOMAIN bcContext.key_learnings}
        n == Len(learnings)
    IN  /\ learnings = <<>> => "KEY LEARNINGS" \notin bcContext.sections
        /\ n > 5 =>
             /\ "KEY LEARNINGS" \in bcContext.sections
             /\ Len(bcContext.key_learnings) = 5
             /\ \A i \in (n - 4) .. n : learnings[i] \in shown
             /\ \A i \in 1 .. (n - 5) : learnings[i] \notin shown

\* C27 witness: of seven learnings the last five are shown
C27_Witness ==
  /\ bcContext.built
  /\ Len(bcMemory.key_learnings) = 7
  /\ bcContext.key_learnings = <<3, 4, 5, 6, 7>>

\* C27 witness: no learnings, no section
C27_WitnessEmpty ==
  /\ bcContext.built
  /\ bcMemory.key_learnings = <<>>
  /\ "KEY LEARNINGS" \notin bcContext.sections

C40_HandoffIffAtThreshold ==
  \A p \in Procs :
    (pc[p] = "done" /\ ending[p] \in {"continue", "context_threshold"})
      => (ending[p] = "context_threshold"
            <=> loc[p].ESTIMATED_PCT >= CONTEXT_THRESHOLD)

\* C38: after any boundary update, strategy.current in the loop state is one of
\* explore, focused, cleanup, recovery, whatever value (including none or an
\* arbitrary string) the strategy engine returned.
C38_StoredStrategyValid ==
  \A p \in Procs :
    (updated[p] /\ stateFile.exists) => stateFile.current \in Strategies

\* C38 witness: the engine returned an arbitrary string and the update stored explore
C38_Witness ==
  /\ updated[1]
  /\ stateFile.exists
  /\ loc[1].RAW_STRATEGY = "bogus"
  /\ stateFile.current = "explore"

\* C38 witness: the engine's output had no .strategy
C38_WitnessNone ==
  /\ updated[1]
  /\ stateFile.exists
  /\ loc[1].RAW_STRATEGY = "null"
  /\ stateFile.current = "explore"

\* C39: a boundary update changes only the iteration and strategy.current
\* fields of the loop state; max_iterations, completion_promise, session_id,
\* checkpoint settings, cycle_number and every line of the prompt text after
\* the frontmatter are left unchanged, for any prompt text.
C39_UpdateChangesTwoFields ==
  [][ \A p \in Procs :
        (pc[p] = "mv" /\ updated'[p])
          => stateFile' = [stateFile EXCEPT !.iteration = stateFile'.iteration,
                                            !.current = stateFile'.current] ]_vars

\* C35: if the loop state record is removed by a cancellation while a boundary
\* step is still in progress, that boundary step does not recreate the state
\* file: once cancelled, the loop state stays absent for every interleaving of
\* the removal with the step's read, temp-file write and replace.
C35_CancelledStaysAbsent == cancelled => ~stateFile.exists

\* the invocation is inside the locked section: flock has succeeded and the
\* subshell of lines 290-309 has not ended
InSection(p) == pc[p] \in {"sed", "mv"}

\* C34: at most one boundary invocation at a time is inside the locked
\* state-update section (temp-file write and replace), for every interleaving
\* of concurrent invocations, including ones in which another invocation times
\* out on the lock, exits through its cleanup handler, or removes the lock
\* file after finishing.
C34_MutualExclusion == Cardinality({p \in Procs : InSection(p)}) <= 1

\* the stored iteration does not go down while the loop state exists
IterationNeverDecreases ==
  [][ (stateFile.exists /\ stateFile'.exists /\ IsNumeric(stateFile.iteration))
        => stateFile'.iteration >= stateFile.iteration ]_vars

\* when a step emits its continue decision the stored iteration is one more
\* than the iteration the step found
ContinueAddsOne ==
  [][ \A p \in Procs :
        (out[p] = "none" /\ out'[p] = "block")
          => (stateFile'.exists /\ stateFile'.iteration = loc[p].ITERATION + 1) ]_vars

\* C31: across the lifetime of a loop the stored iteration never decreases, and
\* every boundary step that emits a continue (block) decision increases the
\* stored iteration by exactly 1.
C31_IterationMonotonic == IterationNeverDecreases /\ ContinueAddsOne

\* phase a comes before phase b in the trace whenever b is in it
ComesBefore(t, a, b) ==
  \A j \in DOMAIN t :
    t[j] = b => /\ \E i \in 1 .. (j - 1) : t[i] = a
                /\ \A i \in DOMAIN t : t[i] = a => i < j

\* C32: within one boundary step the phases run in the order analysis,
\* strategy decision, memory update, context build, state save, and the
\* continue decision that triggers the next agent invocation is emitted only
\* after the state save of that boundary has finished.
C32_PhaseOrder ==
  \A p \in Procs :
    /\ ComesBefore(phases[p], "analysis", "strategy")
    /\ ComesBefore(phases[p], "strategy", "memory")
    /\ ComesBefore(phases[p], "memory", "context")
    /\ ComesBefore(phases[p], "context", "save")
    /\ ComesBefore(phases[p], "save", "decision")
    /\ out[p] = "block" => (updated[p] /\ pc[p] = "done")

\* C32 witness: a boundary went through every phase and emitted the continue decision
C32_Witness ==
  /\ out[1] = "block"
  /\ ending[1] = "continue"
  /\ phases[1] = <<"analysis", "strategy", "memory", "status", "context", "save", "decision">>
  /\ stateFile.iteration = loc[1].ITERATION + 1

\* C33: each CycleHandoff written at a cycle boundary is read exactly once, by
\* the startup of the next cycle, and not again afterwards, also when that next
\* cycle is retried.
C33_HandoffReadOnce ==
  \A n \in DOMAIN handoffReads : handoffReads[n] <= 1

\* C36: once the supervisor has recorded a terminal status (completed, error or
\* max_cycles) in its state file, that status is the one in the file after the
\* process has exited; the exit handler marks the run "interrupted" only for
\* exits on which no terminal status was recorded.
C36_TerminalStatusStays ==
  supPc = "exited" =>
    /\ supRecorded # "none" => supState.status = supRecorded
    /\ supState.status = "interrupted" => supRecorded = "none"

\* the bound on the agent loops of one supervisor run
MaxAgentRuns == MAX_CYCLES * (MAX_RETRIES + 1)

\* C37: provided every agent-loop run terminates, the supervisor terminates
\* after at most MAX_CYCLES x (MAX_RETRIES + 1) agent-loop runs, for every
\* sequence of exit codes returned by those runs.
C37_SupervisorTerminates ==
  /\ [](agentRuns <= MaxAgentRuns)
  /\ <>(supPc = "exited")

\* C37 witness: the supervisor has exited after the largest number of agent
\* loops, every cycle but the last retried twice and ended by the threshold
C37_Witness ==
  /\ supPc = "exited"
  /\ MAX_CYCLES > 1
  /\ agentRuns = MaxAgentRuns

====
